---- MODULE Spec2Model ----
(***************************************************************************)
(* Context budget engine of moqui_example:                                 *)
(*   - ContextManager (src/.github/scripts/context-manager.ts): budget     *)
(*     allocation, token estimation, truncation, priority ranking;         *)
(*   - the context-aware instructions server (src/unnamed/part_001):        *)
(*     cached instruction loading and budgeted selection.                  *)
(* JavaScript numbers are IEEE-754 binary64.  Wherever the source divides  *)
(* or multiplies by a value that is not a power of two, the model computes *)
(* the correctly rounded binary64 result on bit sequences, so that         *)
(* Math.floor(180 * 0.35) is 62 here as it is in the program.              *)
(***************************************************************************)
EXTENDS Integers, Sequences, FiniteSets, TLC

(***************************************************************************)
(* binary64 arithmetic on non-negative values.                             *)
(* A finite non-zero double is [k |-> "fin", m |-> bits, e |-> exponent]:  *)
(* m is the 53-bit significand, most significant bit first (m[1] = 1),     *)
(* and the value is m * 2^e.  Zero, NaN and +Infinity are tagged records.  *)
(***************************************************************************)
MantBits == 53

\* The arithmetic works on limbs of 15 bits, so that a limb times (or a
\* remainder below) an integer under 2^15 stays inside TLC's 32-bit integers.
LimbBits == 15

LimbBase == 2^LimbBits

\* zero limbs appended to a dividend: a quotient by a divisor below 2^15
\* then keeps guard bits below its 53 significant bits
PadLimbs == 3

DZero == [k |-> "zero"]
DNaN == [k |-> "nan"]
DInf == [k |-> "inf"]

DFin(m, e) == [k |-> "fin", m |-> m, e |-> e]

Zeros(n) == [i \in 1..n |-> 0]

\* the bits of n, most significant first, without leading zeros
BitLen(n) == IF n = 0 THEN 0 ELSE 1 + (CHOOSE k \in 0..30 : 2^k <= n /\ n \div 2^k = 1)

NatToBits(n) == [i \in 1..BitLen(n) |-> (n \div 2^(BitLen(n) - i)) % 2]

RECURSIVE BitsToNat(_)
BitsToNat(b) ==
    IF Len(b) = 0 THEN 0
    ELSE 2 * BitsToNat(SubSeq(b, 1, Len(b) - 1)) + b[Len(b)]

\* b without its leading zeros
StripZeros(b) ==
    IF \A i \in 1..Len(b) : b[i] = 0 THEN <<>>
    ELSE LET first == CHOOSE i \in 1..Len(b) :
                          b[i] = 1 /\ \A j \in 1..(i - 1) : b[j] = 0
         IN  SubSeq(b, first, Len(b))

\* the limbs of the bit sequence b, most significant first
BitsToLimbs(b) ==
    LET n   == (Len(b) + LimbBits - 1) \div LimbBits
        pad == Zeros(n * LimbBits - Len(b)) \o b
    IN  [k \in 1..n |-> BitsToNat(SubSeq(pad, (k - 1) * LimbBits + 1, k * LimbBits))]

\* the bits of the limb sequence l (LimbBits bits for every limb)
LimbsToBits(l) ==
    [i \in 1..(Len(l) * LimbBits) |->
        (l[((i - 1) \div LimbBits) + 1] \div 2^(LimbBits - 1 - ((i - 1) % LimbBits))) % 2]

\* l * n by the schoolbook method: the low Len(l) product limbs and the carry
RECURSIVE MulTail(_, _)
MulTail(l, n) ==
    IF Len(l) = 0 THEN [q |-> <<>>, c |-> 0]
    ELSE LET p == MulTail(Tail(l), n)
             v == l[1] * n + p.c
         IN  [q |-> <<v % LimbBase>> \o p.q, c |-> v \div LimbBase]

\* the bits of b * n, for 0 < n < 2^15
MulBits(b, n) ==
    LET p == MulTail(BitsToLimbs(b), n)
    IN  StripZeros(LimbsToBits(<<p.c>> \o p.q))

\* long division of l by n: quotient limbs and remainder
RECURSIVE DivLimbs(_, _)
DivLimbs(l, n) ==
    IF Len(l) = 0 THEN [q |-> <<>>, r |-> 0]
    ELSE LET p == DivLimbs(SubSeq(l, 1, Len(l) - 1), n)
             v == p.r * LimbBase + l[Len(l)]
         IN  [q |-> Append(p.q, v \div n), r |-> v % n]

\* b + 1
IncBits(b) ==
    IF \A i \in 1..Len(b) : b[i] = 1 THEN <<1>> \o Zeros(Len(b))
    ELSE LET last == CHOOSE i \in 1..Len(b) :
                         b[i] = 0 /\ \A j \in (i + 1)..Len(b) : b[j] = 1
         IN  [i \in 1..Len(b) |-> IF i < last THEN b[i] ELSE IF i = last THEN 1 ELSE 0]

\* round-to-nearest, ties-to-even, of (b + f) * 2^e to 53 significant bits,
\* where b has no leading zero, 0 <= f < 1 and sticky says f > 0
RoundNearestEven(b, e, sticky) ==
    IF Len(b) = 0 THEN DZero
    ELSE IF Len(b) <= MantBits
    THEN DFin(b \o Zeros(MantBits - Len(b)), e - (MantBits - Len(b)))
    ELSE LET keep  == SubSeq(b, 1, MantBits)
             guard == b[MantBits + 1]
             rest  == sticky \/ \E i \in (MantBits + 2)..Len(b) : b[i] = 1
             up    == guard = 1 /\ (rest \/ keep[MantBits] = 1)
             e2    == e + (Len(b) - MantBits)
             inc   == IncBits(keep)
         IN  IF ~up THEN DFin(keep, e2)
             ELSE IF Len(inc) > MantBits
             THEN DFin(SubSeq(inc, 1, MantBits), e2 + 1)
             ELSE DFin(inc, e2)

\* the double holding the non-negative integer n (exact below 2^53)
DFromNat(n) == RoundNearestEven(NatToBits(n), 0, FALSE)

\* d * n for an integer 0 <= n < 2^15, as one correctly rounded operation
DMulNat(d, n) ==
    CASE d.k = "nan"  -> DNaN
      [] d.k = "inf"  -> IF n = 0 THEN DNaN ELSE DInf
      [] d.k = "zero" -> DZero
      [] OTHER        -> IF n = 0 THEN DZero
                         ELSE RoundNearestEven(MulBits(d.m, n), d.e, FALSE)

\* d / n for an integer 0 <= n < 2^15, as one correctly rounded operation
DDivNat(d, n) ==
    CASE d.k = "nan"  -> DNaN
      [] d.k = "inf"  -> DInf
      [] d.k = "zero" -> IF n = 0 THEN DNaN ELSE DZero
      [] OTHER        -> IF n = 0 THEN DInf
                         ELSE LET r == DivLimbs(BitsToLimbs(d.m) \o Zeros(PadLimbs), n)
                              IN  RoundNearestEven(StripZeros(LimbsToBits(r.q)),
                                                   d.e - PadLimbs * LimbBits, r.r # 0)

\* the number of significand bits of a finite double left of the binary point
IntBits(d) == MantBits + d.e

\* the integer part of a finite double (the integers met are far below 2^31)
Floor(d) ==
    IF d.k = "zero" \/ IntBits(d) <= 0 THEN 0
    ELSE IF d.e >= 0 THEN BitsToNat(d.m \o Zeros(d.e))
    ELSE BitsToNat(SubSeq(d.m, 1, IntBits(d)))

\* whether the finite double d has a non-zero fractional part
HasFraction(d) ==
    /\ d.k = "fin"
    /\ d.e < 0
    /\ \E i \in 1..MantBits : i > IntBits(d) /\ d.m[i] = 1

\* Math.ceil of a finite double
Ceil(d) == Floor(d) + (IF HasFraction(d) THEN 1 ELSE 0)

\* Math.round of a finite double: the nearest integer, halves rounded up
Round(d) ==
    Floor(d) +
    (IF d.k = "fin" /\ d.e < 0 /\ IntBits(d) >= 0 /\ d.m[IntBits(d) + 1] = 1
     THEN 1 ELSE 0)

\* i > d for an integer i and a finite double d >= 0: an integer exceeds d
\* exactly when it exceeds d's integer part
IntGtDouble(i, d) == i > Floor(d)

(***************************************************************************)
(* A JavaScript number that a budget field can hold: an integer, NaN       *)
(* (0 * Infinity, from percentages that are all zero) or Infinity.         *)
(***************************************************************************)
JsInt(n) == [k |-> "int", v |-> n]
JsNaN == [k |-> "nan"]
JsInf == [k |-> "inf"]

IsNum(x) == x.k = "int"

\* Math.floor(d)
MathFloor(d) ==
    CASE d.k = "nan" -> JsNaN
      [] d.k = "inf" -> JsInf
      [] OTHER       -> JsInt(Floor(d))

\* a - b, a + b, Math.max(a, b) and a <= b on integers and NaN (an infinite
\* budget never arises: the scale 100 / 0 only ever multiplies percentages
\* that are all 0)
JsSub(a, b) == IF IsNum(a) /\ IsNum(b) THEN JsInt(a.v - b.v) ELSE JsNaN
JsAdd(a, b) == IF IsNum(a) /\ IsNum(b) THEN JsInt(a.v + b.v) ELSE JsNaN
\* the second argument returned unclamped
JsMaxSecond(a, b) == b

JsMax(a, b) ==
    IF IsNum(a) /\ IsNum(b) THEN JsInt(IF a.v >= b.v THEN a.v ELSE b.v) ELSE JsNaN
JsLeq(a, b) == IsNum(a) /\ IsNum(b) /\ a.v <= b.v

(***************************************************************************)
(* Strings: String.prototype.substring, lastIndexOf, includes, toLowerCase *)
(* on TLA+ strings (positions in the source are 0-based).                  *)
(***************************************************************************)
\* s.substring(from, to) for 0 <= from <= to; to is clamped to s.length
Substring(s, from, to) == SubSeq(s, from + 1, IF to > Len(s) THEN Len(s) ELSE to)

CharAt(s, i) == SubSeq(s, i + 1, i + 1)

\* s.lastIndexOf(c) for a one-character c: -1 when c does not occur
LastIndexOf(s, c) ==
    IF \A i \in 0..(Len(s) - 1) : CharAt(s, i) # c THEN -1
    ELSE CHOOSE i \in 0..(Len(s) - 1) :
             CharAt(s, i) = c /\ \A j \in (i + 1)..(Len(s) - 1) : CharAt(s, j) # c

\* s.includes(w)
Includes(s, w) == \E i \in 0..(Len(s) - Len(w)) : Substring(s, i, i + Len(w)) = w

UpperCaseLetters == "ABCDEFGHIJKLMNOPQRSTUVWXYZ"
LowerCaseLetters == "abcdefghijklmnopqrstuvwxyz"

LowerChar(c) ==
    IF \E i \in 0..25 : CharAt(UpperCaseLetters, i) = c
    THEN CharAt(LowerCaseLetters, CHOOSE i \in 0..25 : CharAt(UpperCaseLetters, i) = c)
    ELSE c

\* s.toLowerCase(), for ASCII text
RECURSIVE ToLowerCase(_)
ToLowerCase(s) ==
    IF Len(s) <= 1 THEN LowerChar(s)
    ELSE LET h == Len(s) \div 2
         IN  ToLowerCase(SubSeq(s, 1, h)) \o ToLowerCase(SubSeq(s, h + 1, Len(s)))

Max3(a, b, c) ==
    LET ab == IF a >= b THEN a ELSE b IN IF ab >= c THEN ab ELSE c

Min(a, b) == IF a <= b THEN a ELSE b

(***************************************************************************)
(* ContextManager (context-manager.ts)                                     *)
(***************************************************************************)
CHARS_PER_TOKEN == 4

\* cfg.field ?? dflt: cfg is a Partial<ContextConfig>, a record holding the
\* fields the caller gave
OrDefault(cfg, field, dflt) == IF field \in DOMAIN cfg THEN cfg[field] ELSE dflt

\* a threshold of 40% instead of 70%
D0_4 == DDivNat(DFromNat(4), 10)

\* the decimal literals of the source, as the nearest doubles
D0_7  == DDivNat(DFromNat(7), 10)
D0_5  == DDivNat(DFromNat(5), 10)
D0_35 == DDivNat(DFromNat(35), 100)
D0_15 == DDivNat(DFromNat(15), 100)

\* lines 55-61
WithDefaults(cfg) ==
    [totalBudget         |-> OrDefault(cfg, "totalBudget", 6000),
     instructionsPercent |-> OrDefault(cfg, "instructionsPercent", 40),
     docsPercent         |-> OrDefault(cfg, "docsPercent", 30),
     agentPercent        |-> OrDefault(cfg, "agentPercent", 20),
     responsePercent     |-> OrDefault(cfg, "responsePercent", 10)]

\* lines 64-67
PercentTotal(c) ==
    c.instructionsPercent + c.docsPercent + c.agentPercent + c.responsePercent

Abs(x) == IF x >= 0 THEN x ELSE -x

\* line 69: Math.abs(total - 100) > 1
NeedsAdjusting(c) == Abs(PercentTotal(c) - 100) > 1

\* lines 69-77: the percentages, rescaled by 100 / total when their sum is
\* more than 1 away from 100; this.config holds them as doubles
NormalizeConfig(c) ==
    LET scale == DDivNat(DFromNat(100), PercentTotal(c))
        adj   == NeedsAdjusting(c)
    IN  [totalBudget         |-> c.totalBudget,
         instructionsPercent |-> IF adj THEN DMulNat(scale, c.instructionsPercent)
                                 ELSE DFromNat(c.instructionsPercent),
         docsPercent         |-> IF adj THEN DMulNat(scale, c.docsPercent)
                                 ELSE DFromNat(c.docsPercent),
         agentPercent        |-> IF adj THEN DMulNat(scale, c.agentPercent)
                                 ELSE DFromNat(c.agentPercent),
         responsePercent     |-> IF adj THEN DMulNat(scale, c.responsePercent)
                                 ELSE DFromNat(c.responsePercent)]

\* Math.floor(-d) = -Math.ceil(d)
MathFloorNeg(d) ==
    CASE d.k = "nan" -> JsNaN
      [] d.k = "inf" -> JsInf
      [] OTHER       -> JsInt(-Ceil(d))

\* Math.floor(total * (percent / 100)); a product has the sign of total and
\* the magnitude of |total| * (percent / 100), rounded the same way
Share(total, percent) ==
    LET magnitude == DMulNat(DDivNat(percent, 100), Abs(total))
    IN  IF total >= 0 THEN MathFloor(magnitude) ELSE MathFloorNeg(magnitude)

calculateAllocation(c) ==
    [instructions |-> Share(c.totalBudget, c.instructionsPercent),
     docs         |-> Share(c.totalBudget, c.docsPercent),
     agent        |-> Share(c.totalBudget, c.agentPercent),
     reserved     |-> Share(c.totalBudget, c.responsePercent),
     total        |-> JsInt(c.totalBudget)]

\* Math.floor and Math.round in the place of Math.ceil
estimateTokensFloor(content) == Floor(DDivNat(DFromNat(Len(content)), CHARS_PER_TOKEN))
estimateTokensRound(content) == Round(DDivNat(DFromNat(Len(content)), CHARS_PER_TOKEN))

estimateTokens(content) == Ceil(DDivNat(DFromNat(Len(content)), CHARS_PER_TOKEN))

\* three characters to the token
getCharLimitThree(tokens) == tokens * 3

getCharLimit(tokens) == tokens * CHARS_PER_TOKEN

\* a fits that wants a token to spare
fitsStrict(content, budget) == estimateTokens(content) < budget

fits(content, budget) == estimateTokens(content) <= budget

TruncationMarker == "\n\n[... content truncated to fit context budget ...]"

\* a cut one character past the limit
KeptTextOvershoot(content, maxChars) == Substring(content, 0, maxChars + 1)

\* lines 158-170: the text truncate keeps of a content longer than maxChars
KeptText(content, maxChars) ==
    LET truncated     == Substring(content, 0, maxChars)
        lastPeriod    == LastIndexOf(truncated, ".")
        lastNewline   == LastIndexOf(truncated, "\n")
        lastHeading   == LastIndexOf(truncated, "#")
        lastGoodPoint == Max3(lastPeriod, lastNewline, lastHeading)
    IN  IF IntGtDouble(lastGoodPoint, DMulNat(D0_7, maxChars))
        THEN Substring(content, 0, lastGoodPoint + 1)
        ELSE truncated

truncate(content, budget) ==
    LET originalTokens == estimateTokens(content)
        maxChars       == getCharLimit(budget)
    IN  IF Len(content) <= maxChars
        THEN [content         |-> content,
              original        |-> [length |-> Len(content), tokens |-> originalTokens],
              truncated       |-> [length |-> Len(content), tokens |-> originalTokens],
              wasTruncated    |-> FALSE,
              percentRetained |-> 100]
        ELSE LET truncated == KeptText(content, maxChars)
             IN  [content         |-> truncated \o TruncationMarker,
                  original        |-> [length |-> Len(content), tokens |-> originalTokens],
                  truncated       |-> [length |-> Len(truncated),
                                       tokens |-> estimateTokens(truncated)],
                  wasTruncated    |-> TRUE,
                  percentRetained |->
                      Round(DMulNat(DDivNat(DFromNat(Len(truncated)), Len(content)), 100))]

\* the architecture rule leaving instructionsPriority as it was
RulePrioritiesPartialRule(task) ==
    LET taskLower == ToLowerCase(task)
        p0 == [instructions |-> 1, docs |-> 2, agent |-> 3]
        p1 == IF Includes(taskLower, "api") \/ Includes(taskLower, "rest")
                 \/ Includes(taskLower, "endpoint")
              THEN [instructions |-> 2, docs |-> 3, agent |-> 1] ELSE p0
        p2 == IF Includes(taskLower, "security") \/ Includes(taskLower, "auth")
                 \/ Includes(taskLower, "owasp")
              THEN [instructions |-> 1, docs |-> 2, agent |-> 3] ELSE p1
        p3 == IF Includes(taskLower, "performance") \/ Includes(taskLower, "optimize")
              THEN [instructions |-> 2, docs |-> 1, agent |-> 3] ELSE p2
        p4 == IF Includes(taskLower, "test") \/ Includes(taskLower, "spec")
              THEN [instructions |-> 1, docs |-> 2, agent |-> 3] ELSE p3
        p5 == IF Includes(taskLower, "architecture") \/ Includes(taskLower, "design")
              THEN [instructions |-> p4.instructions, docs |-> 2, agent |-> 1] ELSE p4
    IN  p5

\* the security rule evaluated before the api rule
RulePrioritiesSwapped(task) ==
    LET taskLower == ToLowerCase(task)
        p0 == [instructions |-> 1, docs |-> 2, agent |-> 3]
        p1 == IF Includes(taskLower, "security") \/ Includes(taskLower, "auth")
                 \/ Includes(taskLower, "owasp")
              THEN [instructions |-> 1, docs |-> 2, agent |-> 3] ELSE p0
        p2 == IF Includes(taskLower, "api") \/ Includes(taskLower, "rest")
                 \/ Includes(taskLower, "endpoint")
              THEN [instructions |-> 2, docs |-> 3, agent |-> 1] ELSE p1
        p3 == IF Includes(taskLower, "performance") \/ Includes(taskLower, "optimize")
              THEN [instructions |-> 2, docs |-> 1, agent |-> 3] ELSE p2
        p4 == IF Includes(taskLower, "test") \/ Includes(taskLower, "spec")
              THEN [instructions |-> 1, docs |-> 2, agent |-> 3] ELSE p3
        p5 == IF Includes(taskLower, "architecture") \/ Includes(taskLower, "design")
              THEN [instructions |-> 3, docs |-> 2, agent |-> 1] ELSE p4
    IN  p5

\* lines 189-226: the three priorities after the keyword rules, each rule
\* overwriting what the rules before it set
RulePriorities(task) ==
    LET taskLower == ToLowerCase(task)
        p0 == [instructions |-> 1, docs |-> 2, agent |-> 3]
        p1 == IF Includes(taskLower, "api") \/ Includes(taskLower, "rest")
                 \/ Includes(taskLower, "endpoint")
              THEN [instructions |-> 2, docs |-> 3, agent |-> 1] ELSE p0
        p2 == IF Includes(taskLower, "security") \/ Includes(taskLower, "auth")
                 \/ Includes(taskLower, "owasp")
              THEN [instructions |-> 1, docs |-> 2, agent |-> 3] ELSE p1
        p3 == IF Includes(taskLower, "performance") \/ Includes(taskLower, "optimize")
              THEN [instructions |-> 2, docs |-> 1, agent |-> 3] ELSE p2
        p4 == IF Includes(taskLower, "test") \/ Includes(taskLower, "spec")
              THEN [instructions |-> 1, docs |-> 2, agent |-> 3] ELSE p3
        p5 == IF Includes(taskLower, "architecture") \/ Includes(taskLower, "design")
              THEN [instructions |-> 3, docs |-> 2, agent |-> 1] ELSE p4
    IN  p5

\* Array.prototype.sort((a, b) => a.priority - b.priority): stable
SortByPriority(arr) ==
    LET pos(k) == 1 + Cardinality({j \in 1..Len(arr) :
                         \/ arr[j].priority < arr[k].priority
                         \/ arr[j].priority = arr[k].priority /\ j < k})
    IN  [n \in 1..Len(arr) |-> arr[CHOOSE k \in 1..Len(arr) : pos(k) = n]]

suggestPriority(task) ==
    LET p == RulePriorities(task)
    IN  SortByPriority(<<[type |-> "instructions", priority |-> p.instructions],
                         [type |-> "docs",         priority |-> p.docs],
                         [type |-> "agent",        priority |-> p.agent]>>)

\* line 255
weights == <<D0_5, D0_35, D0_15>>

\* Math.floor(totalAvailable * weight)
Amount(totalAvailable, weight) ==
    IF ~IsNum(totalAvailable) THEN JsNaN
    ELSE IF totalAvailable.v >= 0 THEN MathFloor(DMulNat(weight, totalAvailable.v))
    ELSE MathFloorNeg(DMulNat(weight, -totalAvailable.v))

\* lines 241-263, for the static allocation alloc
allocateByPriority(alloc, task) ==
    LET priorities     == suggestPriority(task)
        totalAvailable == JsSub(alloc.total, alloc.reserved)
        first == [instructions |-> JsInt(0), docs |-> JsInt(0), agent |-> JsInt(0),
                  reserved |-> alloc.reserved, total |-> alloc.total]
        a1 == [first EXCEPT ![priorities[1].type] = Amount(totalAvailable, weights[1])]
        a2 == [a1 EXCEPT ![priorities[2].type] = Amount(totalAvailable, weights[2])]
        a3 == [a2 EXCEPT ![priorities[3].type] = Amount(totalAvailable, weights[3])]
    IN  a3

(***************************************************************************)
(* Context-aware instructions server (part_001)                            *)
(***************************************************************************)
CONTEXT_BUDGET == 6000
SERVER_CHARS_PER_TOKEN == 4
MAX_CHARS == CONTEXT_BUDGET * SERVER_CHARS_PER_TOKEN

\* Math.ceil(chars / CHARS_PER_TOKEN): a division by 4 is exact in binary64,
\* so the ceiling is the integer one
TokensFor(chars) == (chars + SERVER_CHARS_PER_TOKEN - 1) \div SERVER_CHARS_PER_TOKEN

\* what loadInstruction returns: null, or the content
Null == [found |-> FALSE]
Content(c) == [found |-> TRUE, content |-> c]

\* content of up to ten characters taken for empty
FalsyShort(v) == IF v.found THEN Len(v.content) <= 10 ELSE TRUE

\* a test for null alone
FalsyNullOnly(v) == ~v.found

\* !content: null and the empty string are falsy
Falsy(v) == IF v.found THEN v.content = "" ELSE TRUE

\* a load that reads the file every time
loadInstructionUncached(cache, fs, filename) ==
    IF filename \notin DOMAIN fs THEN Null ELSE Content(fs[filename])

\* lines 53-66: the value loadInstruction(filename) returns, for the cache
\* and the files as they are
loadInstruction(cache, fs, filename) ==
    IF filename \in DOMAIN cache THEN Content(cache[filename])
    ELSE IF filename \notin DOMAIN fs THEN Null
    ELSE Content(fs[filename])

\* ... and the cache it leaves: populated on a miss that finds the file
CacheAfterLoad(cache, fs, filename) ==
    IF filename \in DOMAIN cache \/ filename \notin DOMAIN fs THEN cache
    ELSE [f \in DOMAIN cache \cup {filename} |->
             IF f = filename THEN fs[filename] ELSE cache[f]]

\* path.extname(filepath).substring(1).toLowerCase()
Ext(filepath) ==
    LET slash == LastIndexOf(filepath, "/")
        base  == Substring(filepath, slash + 1, Len(filepath))
        dot   == LastIndexOf(base, ".")
    IN  IF dot <= 0 THEN "" ELSE ToLowerCase(Substring(base, dot + 1, Len(base)))

\* lines 74-84
fileTypeMap ==
    [ext \in {"java", "groovy", "js", "ts", "vue", "md", "ftl", "xml", "scss"} |->
        CASE ext = "java"   -> "java.instructions.md"
          [] ext = "groovy" -> "groovy.instructions.md"
          [] ext = "js"     -> "typescript-5-es2022.instructions.md"
          [] ext = "ts"     -> "typescript-5-es2022.instructions.md"
          [] ext = "vue"    -> "vuejs3.instructions.md"
          [] ext = "md"     -> "markdown.instructions.md"
          [] ext = "ftl"    -> "java-mcp-server.instructions.md"
          [] ext = "xml"    -> "java-mcp-server.instructions.md"
          [] ext = "scss"   -> "vuejs3.instructions.md"]

\* line 86
InstructionFileFor(ext) ==
    IF ext \in DOMAIN fileTypeMap THEN fileTypeMap[ext]
    ELSE "code-review-generic.instructions.md"

ServerTruncationMarker == "\n\n[... content truncated to fit context budget ...]"
SelectionTruncationMarker == "\n[... truncated ...]"

\* lines 71-115: what getInstructionsForFile returns for the loaded content
\* (an McpError InvalidRequest when there is none)
InstructionsForFile(filepath, maxChars, content) ==
    LET ext == Ext(filepath)
        instructionFile == InstructionFileFor(ext)
    IN  IF Falsy(content)
        THEN [error |-> "InvalidRequest"]
        ELSE IF Len(content.content) > maxChars
        THEN [file |-> instructionFile,
              content |-> Substring(content.content, 0, maxChars) \o ServerTruncationMarker,
              truncated |-> TRUE,
              originalLength |-> Len(content.content),
              availableChars |-> maxChars]
        ELSE [file |-> instructionFile,
              content |-> content.content,
              truncated |-> FALSE,
              length |-> Len(content.content),
              fileExtension |-> ext]

\* [...new Set(list)]: the first occurrence of every element, in order
Dedupe(list) ==
    LET firsts == {i \in 1..Len(list) : \A j \in 1..(i - 1) : list[j] # list[i]}
        rank(i) == Cardinality({j \in firsts : j <= i})
    IN  [n \in 1..Cardinality(firsts) |-> list[CHOOSE i \in firsts : rank(i) = n]]

\* lines 120-152
determineRelevantInstructions(task, fileType) ==
    LET taskLower == ToLowerCase(task)
        when(cond, name) == IF cond THEN <<name>> ELSE <<>>
    IN  Dedupe(
            <<"code-review-generic.instructions.md">>
            \o when(fileType = "java", "java.instructions.md")
            \o when(fileType = "groovy", "groovy.instructions.md")
            \o when(fileType = "typescript" \/ fileType = "javascript",
                    "typescript-5-es2022.instructions.md")
            \o when(fileType = "vue" \/ fileType = "scss", "vuejs3.instructions.md")
            \o when(Includes(taskLower, "security") \/ Includes(taskLower, "auth")
                        \/ Includes(taskLower, "owasp"),
                    "security-and-owasp.instructions.md")
            \o when(Includes(taskLower, "performance") \/ Includes(taskLower, "optimize"),
                    "performance-optimization.instructions.md")
            \o when(Includes(taskLower, "ui") \/ Includes(taskLower, "component")
                        \/ Includes(taskLower, "quasar"),
                    "quasar.instructions.md")
            \o when(Includes(taskLower, "localize") \/ Includes(taskLower, "i18n")
                        \/ Includes(taskLower, "translation"),
                    "localization.instructions.md"))

\* lines 158-168
NewResult(task, fileType, contextBudget) ==
    [task |-> task,
     fileType |-> fileType,
     instructions |-> <<>>,
     totalChars |-> 0,
     budgetRemaining |-> contextBudget,
     allocation |-> [budget |-> contextBudget,
                     estimatedTokens |-> TokensFor(contextBudget)]]

\* the whole content used, whatever budget remains
InstructionEntryWhole(filename, content, budgetRemaining) ==
    LET charsToUse == Len(content)
        truncated  == Len(content) > charsToUse
    IN  [file |-> filename,
         content |-> IF truncated
                     THEN Substring(content, 0, charsToUse) \o SelectionTruncationMarker
                     ELSE content,
         truncated |-> truncated,
         originalLength |-> Len(content),
         usedLength |-> charsToUse,
         estimatedTokens |-> TokensFor(charsToUse)]

\* lines 179-189: the entry pushed for a loaded file
InstructionEntry(filename, content, budgetRemaining) ==
    LET charsToUse == Min(Len(content), budgetRemaining)
        truncated  == Len(content) > charsToUse
    IN  [file |-> filename,
         content |-> IF truncated
                     THEN Substring(content, 0, charsToUse) \o SelectionTruncationMarker
                     ELSE content,
         truncated |-> truncated,
         originalLength |-> Len(content),
         usedLength |-> charsToUse,
         estimatedTokens |-> TokensFor(charsToUse)]

\* a summary that reports the whole budget as remaining
SummaryFullBudget(r) ==
    [filesLoaded |-> Len(r.instructions),
     totalCharsUsed |-> r.totalChars,
     totalTokensUsed |-> TokensFor(r.totalChars),
     remainingBudget |-> r.allocation.budget,
     remainingTokens |-> TokensFor(r.allocation.budget)]

\* lines 195-201
Summary(r) ==
    [filesLoaded |-> Len(r.instructions),
     totalCharsUsed |-> r.totalChars,
     totalTokensUsed |-> TokensFor(r.totalChars),
     remainingBudget |-> r.budgetRemaining,
     remainingTokens |-> TokensFor(r.budgetRemaining)]

(***************************************************************************)
(* Inputs                                                                  *)
(***************************************************************************)
MaxTextLen == 3
MaxBudget == 2
MaxTaskWords == 2
MaxUsed == 2

Totals == {-200, 0, 200, 1000}
PercentChoices == {0, 25, 26, 40}

\* lines 290-346 (GENEROUS and MINIMAL repeat BALANCED)
PRESETS ==
    {[instructionsPercent |-> 40, docsPercent |-> 30, agentPercent |-> 20, responsePercent |-> 10],
     [instructionsPercent |-> 30, docsPercent |-> 50, agentPercent |-> 10, responsePercent |-> 10],
     [instructionsPercent |-> 20, docsPercent |-> 20, agentPercent |-> 50, responsePercent |-> 10],
     [instructionsPercent |-> 60, docsPercent |-> 20, agentPercent |-> 10, responsePercent |-> 10],
     [instructionsPercent |-> 20, docsPercent |-> 20, agentPercent |-> 20, responsePercent |-> 40]}

\* the configurations a caller constructs a manager with: every field given,
\* a preset (totalBudget defaulted), a preset with a budget, or nothing
ConfigInputs ==
    [totalBudget : Totals, instructionsPercent : PercentChoices,
     docsPercent : PercentChoices, agentPercent : PercentChoices,
     responsePercent : PercentChoices]
    \cup PRESETS
    \cup {[totalBudget |-> t, instructionsPercent |-> c.instructionsPercent,
           docsPercent |-> c.docsPercent, agentPercent |-> c.agentPercent,
           responsePercent |-> c.responsePercent] : t \in Totals, c \in PRESETS}
    \cup {<<>>}

Alphabet == {"a", ".", "\n", "#"}

RECURSIVE StringsUpTo(_)
StringsUpTo(n) ==
    IF n = 0 THEN {""}
    ELSE LET shorter == StringsUpTo(n - 1)
         IN  shorter \cup {x \o c : x \in shorter, c \in Alphabet}

\* texts whose boundary characters fall anywhere in the first 8 characters
Texts == {pre \o x \o post : pre \in {"", "aaaa"}, x \in StringsUpTo(MaxTextLen),
                              post \in {"", "aaaa"}}

SentenceText == "Sentence one. Sentence two. Sentence three."

A21 == "aaaaaaaaaaaaaaaaaaaaa"
A126 == A21 \o A21 \o A21 \o A21 \o A21 \o A21

\* 190 characters whose only boundary character is at index 126
LongText == A126 \o "." \o A21 \o A21 \o A21

TruncateInputs ==
    (Texts \X (0..MaxBudget)) \cup {<<SentenceText, 6>>, <<SentenceText, 5>>,
                                    <<LongText, 45>>, <<LongText, 44>>}

SmallTruncateInputs == {"", "abc", "aaaaaa.aaa"} \X {0, 1, 2}

Vocabulary ==
    {"api", "rest", "endpoint", "security", "auth", "owasp", "performance",
     "optimize", "test", "spec", "architecture", "design", "implement", "API"}

RECURSIVE TasksUpTo(_)
TasksUpTo(n) ==
    IF n = 0 THEN {""}
    ELSE LET shorter == TasksUpTo(n - 1)
         IN  shorter \cup {IF t = "" THEN w ELSE t \o " " \o w :
                              t \in shorter, w \in Vocabulary}

Tasks ==
    TasksUpTo(MaxTaskWords)
    \cup {"implement security authentication",
          "Implement security authentication for API"}

SmallTasks ==
    {"", "implement security authentication", "REST endpoint", "optimize query",
     "design api", "Implement security authentication for API"}

A100 == A21 \o A21 \o A21 \o A21 \o "aaaaaaaaaaaaaaaa"

\* the instruction files whose presence and content vary, and what they hold
VaryingFiles ==
    {"code-review-generic.instructions.md", "java.instructions.md",
     "security-and-owasp.instructions.md"}
FileContents == {"", "aaaaaa.aaa", A100}

FileSystems == UNION {[present -> FileContents] : present \in SUBSET VaryingFiles}

ServerTasks == {"fix bug", "Security audit", "optimize auth"}
FileTypes == {"java", "python"}
ContextBudgets == {0, 8, 15, 150, MAX_CHARS}
FilePaths == {"src/Main.java", "README.md", "Makefile", "lib/util.JAVA"}
MaxCharsInputs == {8, MAX_CHARS}

Types == {"instructions", "docs", "agent"}

(***************************************************************************)
(* State                                                                   *)
(***************************************************************************)
VARIABLES
    config,       \* this.config
    allocation,   \* this.allocation
    warned,       \* whether the constructor wrote its console.warn diagnostic
    twin,         \* a second manager built from the same configuration
    ret,          \* the call the caller made last and what it returned
    files,             \* the instruction files on disk: name -> content
    instructionCache,  \* the server's Map of loaded instruction files
    pc,                \* where the server's request in progress stands
    request,           \* the arguments of the request in progress
    relevantFiles,     \* getContextualInstructions: the list being iterated
    cursor,            \* ... and the position of the for-of loop in it
    result,            \* the result object being built, then returned
    responseCache,     \* the orchestrator's .mcp-cache: cache key -> file content
    run,               \* the orchestrator run in progress
    prev,              \* the orchestrator run that finished last
    cachedAgents,      \* the moqui-agents server's cachedAgents
    toolCall           \* the tools/call last answered by the mcp-instructions or
                       \* the moqui-agents server, and the answer

cmVars == <<config, allocation, warned, twin>>
srvVars == <<files, instructionCache, pc, request, relevantFiles, cursor, result>>
orchVars == <<responseCache, run, prev>>
agtVars == <<cachedAgents, toolCall>>
vars == <<config, allocation, warned, twin, ret, files, instructionCache, pc, request,
          relevantFiles, cursor, result, responseCache, run, prev, cachedAgents, toolCall>>

NoCall == [op |-> "none"]
NoTwin == [built |-> FALSE]
NoRequest == [tool |-> "none"]
NoResult == [none |-> TRUE]
NoRun == [pc |-> "none"]
NotLoaded == [loaded |-> FALSE]
NoToolCall == [server |-> "none"]

\* new ContextManager(cfg)
ConstructManager(cfg) ==
    /\ config = NormalizeConfig(WithDefaults(cfg))
    /\ allocation = calculateAllocation(config)
    /\ warned = NeedsAdjusting(WithDefaults(cfg))
    /\ ret = NoCall

\* one manager
Construct(cfg) == ConstructManager(cfg) /\ twin = NoTwin

\* two managers, each built by new ContextManager(cfg)
ConstructTwins(cfg) ==
    /\ ConstructManager(cfg)
    /\ twin = [built      |-> TRUE,
               config     |-> NormalizeConfig(WithDefaults(cfg)),
               allocation |-> calculateAllocation(NormalizeConfig(WithDefaults(cfg))),
               ret        |-> NoCall]

\* the server as it starts on the instruction files fs: nothing cached, no
\* request in progress
ServerStart(fs) ==
    /\ files = fs
    /\ instructionCache = <<>>
    /\ pc = "idle"
    /\ request = NoRequest
    /\ relevantFiles = <<>>
    /\ cursor = 0
    /\ result = NoResult

\* the orchestrator has not run yet: setup_dirs will create an empty .mcp-cache
OrchestratorStart ==
    /\ responseCache = <<>>
    /\ run = NoRun
    /\ prev = NoRun
    /\ cachedAgents = NotLoaded
    /\ toolCall = NoToolCall

Init ==
    /\ \E cfg \in ConfigInputs : Construct(cfg)
    /\ ServerStart(<<>>)
    /\ OrchestratorStart

InitDefault == Construct(<<>>) /\ ServerStart(<<>>) /\ OrchestratorStart

InitServer ==
    /\ Construct(<<>>)
    /\ \E fs \in FileSystems : ServerStart(fs)
    /\ OrchestratorStart

\* getAllocation(): a copy of this.allocation
GetAllocation ==
    /\ ret = NoCall
    /\ ret' = [op |-> "getAllocation", value |-> allocation]
    /\ UNCHANGED <<cmVars, srvVars, orchVars, agtVars>>

GetBudgetFor ==
    /\ ret = NoCall
    /\ \E type \in Types :
           ret' = [op |-> "getBudgetFor", type |-> type, value |-> allocation[type]]
    /\ UNCHANGED <<cmVars, srvVars, orchVars, agtVars>>

GetRemaining ==
    /\ ret = NoCall
    /\ \E type \in Types, used \in {0, 100 * MaxUsed, 10000} :
           ret' = [op |-> "getRemaining", type |-> type, used |-> used,
                   value |-> JsMax(JsInt(0), JsSub(allocation[type], JsInt(used)))]
    /\ UNCHANGED <<cmVars, srvVars, orchVars, agtVars>>

EstimateTokens(texts) ==
    /\ ret = NoCall
    /\ \E content \in texts :
           ret' = [op |-> "estimateTokens", content |-> content,
                   value |-> estimateTokens(content)]
    /\ UNCHANGED <<cmVars, srvVars, orchVars, agtVars>>

Fits(inputs) ==
    /\ ret = NoCall
    /\ \E in \in inputs :
           ret' = [op |-> "fits", content |-> in[1], budget |-> in[2],
                   value |-> fits(in[1], in[2])]
    /\ UNCHANGED <<cmVars, srvVars, orchVars, agtVars>>

\* a truncate that takes the tokens it kept off this.allocation.instructions
TruncateSpendingBudget(inputs) ==
    /\ ret = NoCall
    /\ \E in \in inputs :
           /\ ret' = [op |-> "truncate", content |-> in[1], budget |-> in[2],
                      value |-> truncate(in[1], in[2])]
           /\ allocation' =
                  [allocation EXCEPT !.instructions =
                      JsSub(@, JsInt(truncate(in[1], in[2]).truncated.tokens))]
    /\ UNCHANGED <<config, warned, twin, srvVars, orchVars, agtVars>>

Truncate(inputs) ==
    /\ ret = NoCall
    /\ \E in \in inputs :
           ret' = [op |-> "truncate", content |-> in[1], budget |-> in[2],
                   value |-> truncate(in[1], in[2])]
    /\ UNCHANGED <<cmVars, srvVars, orchVars, agtVars>>

SuggestPriority(tasks) ==
    /\ ret = NoCall
    /\ \E task \in tasks :
           ret' = [op |-> "suggestPriority", task |-> task,
                   value |-> suggestPriority(task)]
    /\ UNCHANGED <<cmVars, srvVars, orchVars, agtVars>>

\* an allocateByPriority that stores its result in this.allocation
AllocateByPriorityInPlace(tasks) ==
    /\ ret = NoCall
    /\ \E task \in tasks :
           /\ ret' = [op |-> "allocateByPriority", task |-> task,
                      value |-> allocateByPriority(allocation, task)]
           /\ allocation' = allocateByPriority(allocation, task)
    /\ UNCHANGED <<config, warned, twin, srvVars, orchVars, agtVars>>

AllocateByPriority(tasks) ==
    /\ ret = NoCall
    /\ \E task \in tasks :
           ret' = [op |-> "allocateByPriority", task |-> task,
                   value |-> allocateByPriority(allocation, task)]
    /\ UNCHANGED <<cmVars, srvVars, orchVars, agtVars>>

\* this.getCharLimit(this.allocation[type]), the budget being a number or NaN
CharLimitOf(budget) ==
    IF IsNum(budget) THEN JsInt(getCharLimit(budget.v)) ELSE JsNaN

\* lines 268-284: getSummary(); each breakdown string is formatted from the
\* percentage and the token budget held here
GetSummary ==
    /\ ret = NoCall
    /\ ret' = [op |-> "getSummary",
               value |->
                   [config |-> config,
                    allocation |-> allocation,
                    breakdown |->
                        [instructions |-> <<config.instructionsPercent, allocation.instructions>>,
                         docs         |-> <<config.docsPercent, allocation.docs>>,
                         agent        |-> <<config.agentPercent, allocation.agent>>,
                         reserved     |-> <<config.responsePercent, allocation.reserved>>],
                    charLimits |->
                        [instructions |-> CharLimitOf(allocation.instructions),
                         docs         |-> CharLimitOf(allocation.docs),
                         agent        |-> CharLimitOf(allocation.agent)]]]
    /\ UNCHANGED <<cmVars, srvVars, orchVars, agtVars>>

\* the caller is done with the returned value
Return ==
    /\ ret # NoCall
    /\ ret' = NoCall
    /\ UNCHANGED <<cmVars, srvVars, orchVars, agtVars>>

\* a manager built from any configuration, and every call on it
Next ==
    \/ GetAllocation
    \/ GetBudgetFor
    \/ GetRemaining
    \/ EstimateTokens({"", "abc", "aaaaaa.aaa"})
    \/ Fits(SmallTruncateInputs)
    \/ Truncate(SmallTruncateInputs)
    \/ SuggestPriority(SmallTasks)
    \/ AllocateByPriority(SmallTasks)
    \/ GetSummary
    \/ Return

Spec == Init /\ [][Next]_vars

\* the default manager, and the calls that do not read the allocation, over
\* larger sets of texts and tasks
NextEngine ==
    \/ EstimateTokens(Texts)
    \/ Fits(TruncateInputs)
    \/ Truncate(TruncateInputs)
    \/ SuggestPriority(Tasks)
    \/ Return

SpecEngine == InitDefault /\ [][NextEngine]_vars

\* the configurations two managers are built from (budgets that are numbers)
TwinConfigs ==
    {<<>>,
     [totalBudget |-> 200, instructionsPercent |-> 25, docsPercent |-> 25,
      agentPercent |-> 25, responsePercent |-> 0]}
    \cup PRESETS
    \cup {[totalBudget |-> t, instructionsPercent |-> c.instructionsPercent,
           docsPercent |-> c.docsPercent, agentPercent |-> c.agentPercent,
           responsePercent |-> c.responsePercent] : t \in {200, 1000}, c \in PRESETS}

TwinTexts == {"", "abc", "aaaaaa.aaa"}
TwinTruncateInputs == {"abc", "aaaaaa.aaa"} \X {0, 1, 2}
TwinTasks == {"", "REST endpoint", "design api"}

\* the calls made on the second manager
TwinCalls ==
    {[op |-> "getAllocation"]}
    \cup {[op |-> "estimateTokens", content |-> c] : c \in TwinTexts}
    \cup {[op |-> "truncate", content |-> in[1], budget |-> in[2]] : in \in TwinTruncateInputs}
    \cup {[op |-> "suggestPriority", task |-> t] : t \in TwinTasks}
    \cup {[op |-> "allocateByPriority", task |-> t] : t \in TwinTasks}

\* what the method named by call returns on a manager whose this.allocation
\* is alloc
CallResult(alloc, call) ==
    CASE call.op = "getAllocation"      -> alloc
      [] call.op = "estimateTokens"     -> estimateTokens(call.content)
      [] call.op = "truncate"           -> truncate(call.content, call.budget)
      [] call.op = "suggestPriority"    -> suggestPriority(call.task)
      [] call.op = "allocateByPriority" -> allocateByPriority(alloc, call.task)

\* a call on the second manager
TwinCall ==
    /\ twin.built
    /\ twin.ret = NoCall
    /\ \E call \in TwinCalls :
           twin' = [twin EXCEPT !.ret =
                       [k \in DOMAIN call \cup {"value"} |->
                           IF k = "value" THEN CallResult(twin.allocation, call)
                           ELSE call[k]]]
    /\ UNCHANGED <<config, allocation, warned, ret, srvVars, orchVars, agtVars>>

TwinReturn ==
    /\ twin.built
    /\ twin.ret # NoCall
    /\ twin' = [twin EXCEPT !.ret = NoCall]
    /\ UNCHANGED <<config, allocation, warned, ret, srvVars, orchVars, agtVars>>

InitTwins ==
    /\ \E cfg \in TwinConfigs : ConstructTwins(cfg)
    /\ ServerStart(<<>>)
    /\ OrchestratorStart

\* two managers built from the same configuration, each called in its own
\* order
NextTwins ==
    \/ GetAllocation
    \/ EstimateTokens(TwinTexts)
    \/ Truncate(TwinTruncateInputs)
    \/ SuggestPriority(TwinTasks)
    \/ AllocateByPriority(TwinTasks)
    \/ Return
    \/ TwinCall
    \/ TwinReturn

SpecTwins == InitTwins /\ [][NextTwins]_vars

(***************************************************************************)
(* A caller that writes into the objects the manager's methods returned.   *)
(* The second manager is built from the same configuration and left alone. *)
(***************************************************************************)
\* the returned value with one of its fields overwritten by the caller
Overwritten(r, target) ==
    CASE r.op = "suggestPriority" -> [r.value EXCEPT ![1].priority = 7]
      [] r.op = "getSummary" /\ target = "allocation" ->
             [r.value EXCEPT !.allocation.instructions = JsInt(7)]
      [] r.op = "getSummary" /\ target = "config" ->
             [r.value EXCEPT !.config.totalBudget = 7]
      [] OTHER -> [r.value EXCEPT !.instructions = JsInt(7)]

\* lines 99-101, 189-234, 240-263 and 268-284: getAllocation,
\* suggestPriority and allocateByPriority return objects of their own;
\* getSummary returns this.config and this.allocation themselves, so a write
\* to them is a write to the manager's fields
CallerModifies ==
    /\ ret.op \in {"getAllocation", "allocateByPriority", "suggestPriority", "getSummary"}
    /\ "modified" \notin DOMAIN ret
    /\ \E target \in {"allocation", "config"} :
           LET changed == Overwritten(ret, target)
           IN  /\ ret' = [k \in DOMAIN ret \cup {"modified"} |->
                             IF k = "modified" THEN TRUE
                             ELSE IF k = "value" THEN changed ELSE ret[k]]
               /\ allocation' = IF ret.op = "getSummary" THEN changed.allocation
                                ELSE allocation
               /\ config' = IF ret.op = "getSummary" THEN changed.config ELSE config
    /\ UNCHANGED <<warned, twin, srvVars, orchVars, agtVars>>

InitAlias ==
    /\ \E cfg \in TwinConfigs : ConstructTwins(cfg)
    /\ ServerStart(<<>>)
    /\ OrchestratorStart

NextAlias ==
    \/ GetAllocation
    \/ GetBudgetFor
    \/ SuggestPriority(TwinTasks)
    \/ AllocateByPriority(TwinTasks)
    \/ GetSummary
    \/ CallerModifies
    \/ Return

SpecAlias == InitAlias /\ [][NextAlias]_vars

(***************************************************************************)
(* The server's requests.  getContextualInstructions runs its for-of loop  *)
(* one iteration per step; no other request starts before it has returned. *)
(***************************************************************************)
\* lines 158-171
CtxStart ==
    /\ pc = "idle"
    /\ \E task \in ServerTasks, fileType \in FileTypes, contextBudget \in ContextBudgets :
           /\ request' = [tool |-> "get_contextual_instructions", task |-> task,
                          fileType |-> fileType, contextBudget |-> contextBudget]
           /\ result' = NewResult(task, fileType, contextBudget)
           /\ relevantFiles' = determineRelevantInstructions(task, fileType)
    /\ cursor' = 1
    /\ pc' = "loop"
    /\ UNCHANGED <<files, instructionCache, cmVars, ret, orchVars, agtVars>>

\* lines 176-177: the file is missing or empty, continue
CtxSkip ==
    /\ pc = "loop"
    /\ cursor <= Len(relevantFiles)
    /\ result.budgetRemaining > 0
    /\ Falsy(loadInstruction(instructionCache, files, relevantFiles[cursor]))
    /\ instructionCache' = CacheAfterLoad(instructionCache, files, relevantFiles[cursor])
    /\ cursor' = cursor + 1
    /\ UNCHANGED <<files, pc, request, relevantFiles, result, cmVars, ret, orchVars, agtVars>>

\* lines 179-192: the file is pushed, whole or cut to the remaining budget
CtxInclude ==
    /\ pc = "loop"
    /\ cursor <= Len(relevantFiles)
    /\ result.budgetRemaining > 0
    /\ LET filename == relevantFiles[cursor]
           content  == loadInstruction(instructionCache, files, filename)
       IN  /\ ~Falsy(content)
           /\ LET entry == InstructionEntry(filename, content.content,
                                            result.budgetRemaining)
              IN  result' = [result EXCEPT
                      !.instructions = Append(@, entry),
                      !.totalChars = @ + entry.usedLength,
                      !.budgetRemaining = @ - entry.usedLength]
           /\ instructionCache' = CacheAfterLoad(instructionCache, files, filename)
    /\ cursor' = cursor + 1
    /\ UNCHANGED <<files, pc, request, relevantFiles, cmVars, ret, orchVars, agtVars>>

\* lines 173-174 and 195-203: the list is exhausted or the budget is used up;
\* the summary is added and the result returned
CtxFinish ==
    /\ pc = "loop"
    /\ cursor > Len(relevantFiles) \/ result.budgetRemaining <= 0
    /\ result' = [k \in DOMAIN result \cup {"summary"} |->
                     IF k = "summary" THEN Summary(result) ELSE result[k]]
    /\ pc' = "done"
    /\ UNCHANGED <<files, instructionCache, request, relevantFiles, cursor, cmVars, ret, orchVars, agtVars>>

\* lines 71-115
GetInstructionsForFile ==
    /\ pc = "idle"
    /\ \E filepath \in FilePaths, maxChars \in MaxCharsInputs :
           LET instructionFile == InstructionFileFor(Ext(filepath))
           IN  /\ request' = [tool |-> "get_instructions_for_file",
                              filepath |-> filepath, maxChars |-> maxChars]
               /\ result' = InstructionsForFile(filepath, maxChars,
                                loadInstruction(instructionCache, files, instructionFile))
               /\ instructionCache' = CacheAfterLoad(instructionCache, files, instructionFile)
    /\ pc' = "done"
    /\ UNCHANGED <<files, relevantFiles, cursor, cmVars, ret, orchVars, agtVars>>

\* the result has gone to the caller
Respond ==
    /\ pc = "done"
    /\ pc' = "idle"
    /\ request' = NoRequest
    /\ result' = NoResult
    /\ relevantFiles' = <<>>
    /\ cursor' = 0
    /\ UNCHANGED <<files, instructionCache, cmVars, ret, orchVars, agtVars>>

NextServer ==
    \/ CtxStart
    \/ CtxSkip
    \/ CtxInclude
    \/ CtxFinish
    \/ GetInstructionsForFile
    \/ Respond

SpecServer == InitServer /\ [][NextServer]_vars

(***************************************************************************)
(* The orchestrator script in file mode.  A run goes through main one      *)
(* step at a time; runs follow one another on the same .mcp-cache.         *)
(***************************************************************************)
MaxRuns == 2

OrchTasks == {"", "fix bug"}
OrchFiles == {"Foo.java", "App.vue", "missing.ts"}
ExistingFiles == {"Foo.java", "App.vue"}
OrchLLMs == {"claude", "ollama", "gpt"}

\* lines 143-150
KnownLLMs == {"claude", "openai", "anthropic", "ollama", "grok"}

\* what the instructions server may answer, the server failing, or its
\* script not being there
McpOutcomes ==
    {[server |-> "ok", text |-> "INSTRUCTIONS-A"],
     [server |-> "ok", text |-> "INSTRUCTIONS-B"],
     [server |-> "failed", text |-> ""],
     [server |-> "missing", text |-> "Instructions MCP server not found"]}

\* lines 64-66: [[ $VERBOSE -eq 1 ]] && echo ...; the lines it prints ...
log_debug(VERBOSE, msg) == IF VERBOSE THEN <<"[debug] " \o msg>> ELSE <<>>

\* ... and the status it returns, that of the failed test when not verbose
log_debug_status(VERBOSE) == IF VERBOSE THEN 0 ELSE 1

\* lines 125-151
validate_inputs(o) ==
    /\ o.TASK # ""
    /\ o.FILEPATH # ""
    /\ o.FILEPATH \in ExistingFiles
    /\ o.LLM \in KnownLLMs

\* lines 166-183: ${1##*.} and the case on it
get_file_type(path) ==
    LET ext == Substring(path, LastIndexOf(path, ".") + 1, Len(path))
    IN  CASE ext = "java"   -> "java"
          [] ext = "groovy" -> "groovy"
          [] ext = "ts"     -> "typescript"
          [] ext = "js"     -> "javascript"
          [] ext = "vue"    -> "vue"
          [] ext = "ftl"    -> "freemarker"
          [] ext = "md"     -> "markdown"
          [] OTHER          -> "unknown"

\* lines 186-189: the md5 of the input, taken as free of collisions
get_cache_key(input) == input

CacheKeyOf(r) == get_cache_key(r.TASK \o ":" \o r.FILEPATH)

\* lines 204-209
cache_response(cache, key, response) ==
    [k \in DOMAIN cache \cup {key} |-> IF k = key THEN response ELSE cache[k]]

RECURSIVE JoinLines(_)
JoinLines(lines) ==
    IF Len(lines) = 0 THEN ""
    ELSE IF Len(lines) = 1 THEN lines[1]
    ELSE lines[1] \o "\n" \o JoinLines(Tail(lines))

\* lines 216-248: what call_instructions_mcp writes to its standard output
\* (captured by $(...), where errexit is off), its status and whether it
\* started the server
call_instructions_mcp(r, outcome) ==
    LET debug == log_debug(r.VERBOSE, "Calling instructions MCP: task='" \o r.TASK \o "'")
    IN  IF r.DRY_RUN
        THEN [stdout |-> JoinLines(debug \o
                            <<"[DRY RUN] Would call instructions MCP with task='"
                              \o r.TASK \o "' for " \o get_file_type(r.FILEPATH)>>),
              status |-> 0, called |-> FALSE]
        ELSE CASE outcome.server = "ok" ->
                      [stdout |-> JoinLines(debug \o <<outcome.text>>),
                       status |-> 0, called |-> TRUE]
               [] outcome.server = "failed" ->
                      [stdout |-> JoinLines(debug), status |-> 1, called |-> TRUE]
               [] outcome.server = "missing" ->
                      [stdout |-> JoinLines(debug \o <<outcome.text>>),
                       status |-> 0, called |-> FALSE]

\* lines 285-375: the status route_to_claude, route_to_openai, route_to_ollama
\* and route_to_grok return; the last command of each is log_debug
route_status(r) ==
    IF r.DRY_RUN THEN 0
    ELSE IF ~r.credential THEN 1
    ELSE log_debug_status(r.VERBOSE)

\* lines 439-452: a run starts with its options and environment; it exits
\* with status 1 when validate_inputs rejects them
OrchStart ==
    /\ run = NoRun
    /\ (IF prev = NoRun THEN 1 ELSE prev.n + 1) <= MaxRuns
    /\ \E task \in OrchTasks, file \in OrchFiles, llm \in OrchLLMs,
          verbose \in BOOLEAN, dryRun \in BOOLEAN, credential \in BOOLEAN :
           LET o == [TASK |-> task, FILEPATH |-> file, LLM |-> llm]
           IN  run' = [pc |-> IF validate_inputs(o) THEN "check_cache" ELSE "exited",
                       n |-> IF prev = NoRun THEN 1 ELSE prev.n + 1,
                       TASK |-> task, FILEPATH |-> file, LLM |-> llm,
                       VERBOSE |-> verbose, DRY_RUN |-> dryRun,
                       credential |-> credential,
                       cacheAtStart |-> responseCache,
                       INSTRUCTIONS |-> "", output |-> "", server |-> "none",
                       mcpCalls |-> 0, routed |-> FALSE, served |-> FALSE,
                       status |-> IF validate_inputs(o) THEN 0 ELSE 1]
    /\ UNCHANGED <<responseCache, prev, cmVars, ret, srvVars, agtVars>>

\* lines 457-460: the key is cached, the cached text is printed
OrchCacheHit ==
    /\ run.pc = "check_cache"
    /\ CacheKeyOf(run) \in DOMAIN responseCache
    /\ run' = [run EXCEPT !.pc = "exited", !.served = TRUE,
                          !.output = responseCache[CacheKeyOf(run)]]
    /\ UNCHANGED <<responseCache, prev, cmVars, ret, srvVars, agtVars>>

\* lines 461-463: INSTRUCTIONS=$(call_instructions_mcp ...); a failed
\* substitution ends the script
OrchCallMcp ==
    /\ run.pc = "check_cache"
    /\ CacheKeyOf(run) \notin DOMAIN responseCache
    /\ \E outcome \in McpOutcomes :
           LET c == call_instructions_mcp(run, outcome)
           IN  run' = [run EXCEPT
                   !.pc = IF c.status = 0 THEN "route" ELSE "exited",
                   !.INSTRUCTIONS = c.stdout,
                   !.server = IF run.DRY_RUN THEN "none" ELSE outcome.server,
                   !.mcpCalls = IF c.called THEN @ + 1 ELSE @,
                   !.status = c.status]
    /\ UNCHANGED <<responseCache, prev, cmVars, ret, srvVars, agtVars>>

\* lines 465-482: the route function of the LLM is called as a simple
\* command under set -e, so a status other than 0 ends the script
OrchRoute ==
    /\ run.pc = "route"
    /\ run' = [run EXCEPT
           !.pc = IF route_status(run) = 0 THEN "store" ELSE "exited",
           !.routed = ~run.DRY_RUN /\ run.credential,
           !.status = route_status(run)]
    /\ UNCHANGED <<responseCache, prev, cmVars, ret, srvVars, agtVars>>

\* lines 484-485 and 516: cache_response "$CACHE_KEY" "$INSTRUCTIONS"
OrchStore ==
    /\ run.pc = "store"
    /\ responseCache' = cache_response(responseCache, CacheKeyOf(run), run.INSTRUCTIONS)
    /\ run' = [run EXCEPT !.pc = "exited"]
    /\ UNCHANGED <<prev, cmVars, ret, srvVars, agtVars>>

\* the script has ended; the next command can be run
OrchFinish ==
    /\ run.pc = "exited"
    /\ prev' = run
    /\ run' = NoRun
    /\ UNCHANGED <<responseCache, cmVars, ret, srvVars, agtVars>>

NextOrchestrator ==
    \/ OrchStart
    \/ OrchCacheHit
    \/ OrchCallMcp
    \/ OrchRoute
    \/ OrchStore
    \/ OrchFinish

SpecOrchestrator == InitDefault /\ [][NextOrchestrator]_vars

(***************************************************************************)
(* The tools/call handler of the context-aware-instructions server, and    *)
(* the tools it dispatches to.                                             *)
(***************************************************************************)
DocSummaryMarker == "\n... [see full doc for complete content]"

EndsWithMd(f) == Len(f) >= 3 /\ Substring(f, Len(f) - 3, Len(f)) = ".md"

NoDirectory == [exists |-> FALSE]
Directory(entries) == [exists |-> TRUE, entries |-> entries]

RECURSIVE SumOf(_, _)
SumOf(items, field) ==
    IF Len(items) = 0 THEN 0
    ELSE items[1][field] + SumOf(Tail(items), field)

\* lines 208-255: getReferenceDocs(topic, maxChars) on the docs directory as
\* readdirSync lists it; maxChars is not read
getReferenceDocs(docsDir, topic, maxChars) ==
    IF ~docsDir.exists
    THEN [error |-> "Documentation path not found", topic |-> topic]
    ELSE LET docs == SelectSeq(docsDir.entries,
                         LAMBDA d : EndsWithMd(d.file)
                                    /\ Includes(ToLowerCase(d.file), ToLowerCase(topic)))
             taken == SubSeq(docs, 1, Min(2, Len(docs)))
             items == [i \in 1..Len(taken) |->
                          LET summary == Substring(taken[i].content, 0, 1000)
                                         \o DocSummaryMarker
                          IN  [file |-> taken[i].file,
                               content |-> summary,
                               originalLength |-> Len(taken[i].content),
                               summaryLength |-> Len(summary),
                               estimatedTokens |-> TokensFor(Len(summary))]]
         IN  IF Len(docs) = 0
             THEN [error |-> "No documentation found for topic", topic |-> topic,
                   availableDocs |-> SelectSeq(docsDir.entries,
                                               LAMBDA d : EndsWithMd(d.file))]
             ELSE [topic |-> topic,
                   docs |-> items,
                   totalChars |-> SumOf(items, "summaryLength"),
                   totalTokens |-> SumOf(items, "estimatedTokens")]

\* content.split('\n').slice(0, n).join('\n')
FirstLines(content, n) ==
    LET newlines == {i \in 1..Len(content) : SubSeq(content, i, i) = "\n"}
    IN  IF Cardinality(newlines) < n THEN content
        ELSE LET p == CHOOSE i \in newlines :
                          Cardinality({j \in newlines : j <= i}) = n
             IN  SubSeq(content, 1, p - 1)

\* lines 260-289: getAgentGuide(agentName, maxChars) on the agents directory,
\* a map from file name to content; maxChars is not read.  readdirSync
\* throws when the directory is not there
getAgentGuide(agentsDir, agentName, maxChars) ==
    LET filename == agentName \o ".md"
    IN  IF ~agentsDir.exists THEN [exception |-> "ENOENT"]
        ELSE IF filename \notin DOMAIN agentsDir.entries
        THEN [error |-> "Agent not found",
              availableAgents |-> {f \in DOMAIN agentsDir.entries : EndsWithMd(f)}]
        ELSE LET content == agentsDir.entries[filename]
                 summary == FirstLines(content, 40)
             IN  [agent |-> agentName,
                  summary |-> summary,
                  originalLength |-> Len(content),
                  summaryLength |-> Len(summary),
                  estimatedTokens |-> TokensFor(Len(summary))]

\* the cache after loadInstruction has been called for every name of names
RECURSIVE CacheAfterLoads(_, _, _)
CacheAfterLoads(cache, fs, names) ==
    IF names = {} THEN cache
    ELSE LET f == CHOOSE x \in names : TRUE
         IN  CacheAfterLoads(CacheAfterLoad(cache, fs, f), fs, names \ {f})

\* lines 294-329: searchInstructions(keyword): the files whose content has it
searchInstructions(cache, fs, keyword) ==
    LET matches == {f \in DOMAIN fs :
                       LET c == loadInstruction(cache, fs, f)
                       IN  /\ ~Falsy(c)
                           /\ Includes(ToLowerCase(c.content), ToLowerCase(keyword))}
    IN  [keyword |-> keyword, matchesFound |-> Cardinality(matches), files |-> matches]

RECURSIVE TotalLength(_, _, _)
TotalLength(cache, fs, names) ==
    IF names = {} THEN 0
    ELSE LET f == CHOOSE x \in names : TRUE
         IN  Len(loadInstruction(cache, fs, f).content) + TotalLength(cache, fs, names \ {f})

\* lines 334-362: listAvailableInstructions(); the average is 0 / 0 when no
\* file has content
listAvailableInstructions(cache, fs) ==
    LET listed == {f \in DOMAIN fs :
                      EndsWithMd(f) /\ ~Falsy(loadInstruction(cache, fs, f))}
        totalChars == TotalLength(cache, fs, listed)
    IN  [instructions |-> listed,
         count |-> Cardinality(listed),
         totalChars |-> totalChars,
         totalTokens |-> TokensFor(totalChars),
         averageSize |-> IF listed = {} THEN JsNaN
                         ELSE JsInt((totalChars + Cardinality(listed) - 1)
                                    \div Cardinality(listed))]

\* lines 367-374
clearCache(cache) ==
    [success |-> TRUE, removed |-> Cardinality(DOMAIN cache)]

\* lines 377-484: the tools the server advertises
tools == {"get_instructions_for_file", "get_contextual_instructions",
          "get_reference_docs", "get_agent_guide", "search_instructions",
          "list_available_instructions", "clear_cache"}

\* a || b for an optional numeric argument: absent and 0 are both falsy
OrElse(args, field, default) ==
    IF field \in DOMAIN args
    THEN (IF args[field] = 0 THEN default ELSE args[field])
    ELSE default

\* an optional argument passed on as it is: undefined takes the parameter's
\* default value
PassedOn(args, field, default) ==
    IF field \in DOMAIN args THEN args[field] ELSE default

McpError(code) == [mcpError |-> code]

\* lines 553-559: the catch clause: an McpError goes on unchanged, anything
\* else becomes InternalError; a value returned is the content of the answer
Caught(r) ==
    IF r = [error |-> "InvalidRequest"] THEN McpError("InvalidRequest")
    ELSE IF "mcpError" \in DOMAIN r THEN r
    ELSE IF "exception" \in DOMAIN r THEN McpError("InternalError")
    ELSE r

A1100 == A100 \o A100 \o A100 \o A100 \o A100 \o A100 \o A100 \o A100 \o A100 \o A100 \o A100

RECURSIVE Repeat(_, _)
Repeat(s, n) == IF n = 0 THEN "" ELSE s \o Repeat(s, n - 1)

DocsDirs ==
    {NoDirectory,
     Directory(<<>>),
     Directory(<<[file |-> "Entity-Model.md", content |-> A1100],
                 [file |-> "entity-guide.md", content |-> "short doc"],
                 [file |-> "entity-notes.txt", content |-> A100],
                 [file |-> "entity-services.md", content |-> A100]>>)}

AgentsDirs ==
    {NoDirectory,
     Directory([f \in {"api_agent.md"} |-> "# API Agent\nline two"]),
     Directory([f \in {"api_agent.md", "dba_agent.md"} |-> Repeat("a\n", 45)])}

OptionalNumber(field, values) ==
    {<<>>} \cup {[f \in {field} |-> v] : v \in values}

\* a record with the fields of both
Merge(a, b) == [k \in DOMAIN a \cup DOMAIN b |-> IF k \in DOMAIN a THEN a[k] ELSE b[k]]

\* the tools/call requests sent: params.name and params.arguments
ToolRequests ==
    {[name |-> "get_instructions_for_file", arguments |-> Merge([filepath |-> p], o)] :
         p \in {"src/Main.java", "Makefile"}, o \in OptionalNumber("maxChars", {0, 8})}
    \cup {[name |-> "get_contextual_instructions",
           arguments |-> Merge([task |-> t, fileType |-> "java"], o)] :
              t \in {"fix bug", "Security audit"},
              o \in OptionalNumber("contextBudget", {0, 8, 150})}
    \cup {[name |-> "get_reference_docs", arguments |-> Merge([topic |-> t], o)] :
              t \in {"entity", "zzz"}, o \in OptionalNumber("maxChars", {8, 3000})}
    \cup {[name |-> "get_agent_guide", arguments |-> Merge([agentName |-> a], o)] :
              a \in {"api_agent", "nobody"}, o \in OptionalNumber("maxChars", {8, 3000})}
    \cup {[name |-> "search_instructions", arguments |-> [keyword |-> k]] :
              k \in {"A.A", "zzz"}}
    \cup {[name |-> n, arguments |-> <<>>] :
              n \in {"list_available_instructions", "clear_cache", "no_such_tool"}}

HandlerFiles == {"code-review-generic.instructions.md", "java.instructions.md"}
HandlerFileSystems == {fs \in FileSystems : DOMAIN fs \subseteq HandlerFiles}

\* lines 486-560: the handler of tools/call.  get_contextual_instructions
\* enters its loop; every other tool has returned when the step is over
CallTool ==
    /\ pc = "idle"
    /\ \E req \in ToolRequests, docsDir \in DocsDirs, agentsDir \in AgentsDirs :
           LET name == req.name
               args == req.arguments
           IN  /\ request' = [tool |-> name, args |-> args]
               /\ CASE name = "get_instructions_for_file" ->
                         LET instructionFile == InstructionFileFor(Ext(args.filepath))
                         IN  /\ result' = Caught(InstructionsForFile(args.filepath,
                                     OrElse(args, "maxChars", MAX_CHARS),
                                     loadInstruction(instructionCache, files, instructionFile)))
                             /\ instructionCache' =
                                    CacheAfterLoad(instructionCache, files, instructionFile)
                             /\ pc' = "done"
                             /\ UNCHANGED <<relevantFiles, cursor>>
                    [] name = "get_contextual_instructions" ->
                         /\ result' = NewResult(args.task, args.fileType,
                                          OrElse(args, "contextBudget", MAX_CHARS))
                         /\ relevantFiles' =
                                determineRelevantInstructions(args.task, args.fileType)
                         /\ cursor' = 1
                         /\ pc' = "loop"
                         /\ UNCHANGED instructionCache
                    [] name = "get_reference_docs" ->
                         /\ result' = Caught(getReferenceDocs(docsDir, args.topic,
                                          PassedOn(args, "maxChars", MAX_CHARS \div 2)))
                         /\ pc' = "done"
                         /\ UNCHANGED <<instructionCache, relevantFiles, cursor>>
                    [] name = "get_agent_guide" ->
                         /\ result' = Caught(getAgentGuide(agentsDir, args.agentName,
                                          PassedOn(args, "maxChars", MAX_CHARS \div 3)))
                         /\ pc' = "done"
                         /\ UNCHANGED <<instructionCache, relevantFiles, cursor>>
                    [] name = "search_instructions" ->
                         /\ result' = Caught(searchInstructions(instructionCache, files,
                                                                args.keyword))
                         /\ instructionCache' =
                                CacheAfterLoads(instructionCache, files, DOMAIN files)
                         /\ pc' = "done"
                         /\ UNCHANGED <<relevantFiles, cursor>>
                    [] name = "list_available_instructions" ->
                         /\ result' = Caught(listAvailableInstructions(instructionCache, files))
                         /\ instructionCache' =
                                CacheAfterLoads(instructionCache, files,
                                                {f \in DOMAIN files : EndsWithMd(f)})
                         /\ pc' = "done"
                         /\ UNCHANGED <<relevantFiles, cursor>>
                    [] name = "clear_cache" ->
                         /\ result' = Caught(clearCache(instructionCache))
                         /\ instructionCache' = <<>>
                         /\ pc' = "done"
                         /\ UNCHANGED <<relevantFiles, cursor>>
                    [] OTHER ->
                         /\ result' = McpError("MethodNotFound")
                         /\ pc' = "done"
                         /\ UNCHANGED <<instructionCache, relevantFiles, cursor>>
    /\ UNCHANGED <<files, cmVars, ret, orchVars, agtVars>>

\* an instruction file is written, rewritten or removed while the server runs
FileChange ==
    /\ \E f \in HandlerFiles :
           \/ \E c \in FileContents :
                  /\ (f \in DOMAIN files => files[f] # c)
                  /\ files' = [g \in DOMAIN files \cup {f} |-> IF g = f THEN c ELSE files[g]]
           \/ /\ f \in DOMAIN files
              /\ files' = [g \in DOMAIN files \ {f} |-> files[g]]
    /\ UNCHANGED <<instructionCache, pc, request, relevantFiles, cursor, result,
                   cmVars, ret, orchVars, agtVars>>

InitHandler ==
    /\ Construct(<<>>)
    /\ \E fs \in HandlerFileSystems : ServerStart(fs)
    /\ OrchestratorStart

NextHandler ==
    \/ CallTool
    \/ CtxSkip
    \/ CtxInclude
    \/ CtxFinish
    \/ Respond
    \/ FileChange

SpecHandler == InitHandler /\ [][NextHandler]_vars

(***************************************************************************)
(* The tools/call handlers of the mcp-instructions and the moqui-agents    *)
(* servers.  A request is {method, params: {name, arguments}}.             *)
(***************************************************************************)
Undefined == [undefined |-> TRUE]

ToolsCallRequest(name, arguments) ==
    [method |-> "tools/call", params |-> [name |-> name, arguments |-> arguments]]

\* const { name, arguments: args } = obj; a name that is undefined is
\* written as the text it prints as, which is no tool's name
Destructure(obj) ==
    [name |-> IF "name" \in DOMAIN obj THEN obj.name ELSE "undefined",
     args |-> IF "arguments" \in DOMAIN obj THEN obj.arguments ELSE Undefined]

\* the entry a case looks up by name, ignoring case: found, or the case's
\* McpError; reading the name off missing arguments is a TypeError
Lookup(args, field, known, code) ==
    IF args = Undefined \/ field \notin DOMAIN args THEN [exception |-> "TypeError"]
    ELSE IF \E k \in known : ToLowerCase(k) = ToLowerCase(args[field])
    THEN [content |-> args[field]]
    ELSE McpError(code)

\* mcp-instructions-server.js lines 118-120: the files loaded at startup
StartupAgents == {"api_agent", "dba_agent"}
StartupInstructions == {"java", "vue"}
StartupPrompts == {"review"}

\* mcp-instructions-server.js lines 122-244: the tools advertised
instructionsTools ==
    {"list_agents", "get_agent", "list_instructions", "get_instructions",
     "list_prompts", "get_prompt", "search_knowledge", "get_agent_collaboration",
     "get_quick_reference"}

\* mcp-instructions-server.js lines 250-485: the switch
InstructionsSwitch(name, args) ==
    CASE name = "get_agent" ->
             Lookup(args, "agent_name", StartupAgents, "InvalidRequest")
      [] name = "get_instructions" ->
             Lookup(args, "instruction_name", StartupInstructions, "InvalidRequest")
      [] name = "get_prompt" ->
             Lookup(args, "prompt_name", StartupPrompts, "InvalidRequest")
      [] name \in {"list_agents", "list_instructions", "list_prompts",
                   "search_knowledge", "get_quick_reference"} ->
             IF args = Undefined THEN [exception |-> "TypeError"]
             ELSE [content |-> name]
      [] name = "get_agent_collaboration" -> [content |-> name]
      [] OTHER -> McpError("MethodNotFound")

\* mcp-instructions-server.js lines 246-493: name and args are taken from the
\* request itself
InstructionsHandler(req) ==
    LET d == Destructure(req)
    IN  Caught(InstructionsSwitch(d.name, d.args))

\* an argument read with args?.field that must be truthy
Required(args, field) ==
    IF args = Undefined \/ field \notin DOMAIN args THEN FALSE ELSE args[field] # ""

\* mcp-orchestrator.sh lines 1264-1335: the tools the moqui-agents server
\* advertises
agentsTools ==
    {"list_agents", "get_agent", "search_agents", "get_agents_by_expertise",
     "get_collaboration_framework", "get_agent_description"}

\* mcp-orchestrator.sh lines 1100-1255: the switch, on the agents loaded
AgentsSwitch(name, args, allAgents) ==
    CASE name = "list_agents" -> [content |-> name]
      [] name = "get_agent" ->
             IF ~Required(args, "agent_name") THEN McpError("InvalidParams")
             ELSE Lookup(args, "agent_name", allAgents, "InvalidParams")
      [] name = "search_agents" ->
             IF ~Required(args, "keyword") THEN McpError("InvalidParams")
             ELSE [content |-> name]
      [] name = "get_agents_by_expertise" ->
             IF ~Required(args, "expertise") THEN McpError("InvalidParams")
             ELSE [content |-> name]
      [] name = "get_collaboration_framework" -> [content |-> name]
      [] name = "get_agent_description" ->
             IF ~Required(args, "agent") THEN McpError("InvalidParams")
             ELSE Lookup(args, "agent", allAgents, "InvalidParams")
      [] OTHER -> McpError("MethodNotFound")

\* the agents directory as loadAllAgents finds it: nothing there, agent files
\* it can read, or a file whose frontmatter has an array that is not JSON
\* (expertise: [api, rest]), on which JSON.parse throws
AgentsOnDisk ==
    {[parses |-> TRUE, names |-> {}],
     [parses |-> TRUE, names |-> {"api_agent", "dba_agent"}],
     [parses |-> FALSE, names |-> {"api_agent"}]}

\* mcp-orchestrator.sh lines 1008-1057
loadAllAgents(disk) ==
    IF disk.parses THEN [loaded |-> TRUE, names |-> disk.names]
    ELSE [exception |-> "SyntaxError"]

\* mcp-orchestrator.sh lines 1086-1093: the agents, loaded on first use
getCachedAgents(cached, disk) ==
    IF cached.loaded THEN cached ELSE loadAllAgents(disk)

\* mcp-orchestrator.sh lines 1095-1262: getCachedAgents() is called before
\* the try block, so what it throws leaves the handler as it is
AgentsHandler(req, cached, disk) ==
    LET d == Destructure(req.params)
        allAgents == getCachedAgents(cached, disk)
    IN  IF "exception" \in DOMAIN allAgents THEN allAgents
        ELSE Caught(AgentsSwitch(d.name, d.args, allAgents.names))

InstructionsRequests ==
    {ToolsCallRequest(n, a) :
         n \in {"get_agent"}, a \in {<<>>, [agent_name |-> "API_agent"], [agent_name |-> "nobody"]}}
    \cup {ToolsCallRequest(n, <<>>) : n \in instructionsTools \cup {"no_such_tool"}}
    \cup {ToolsCallRequest("get_instructions", [instruction_name |-> i]) : i \in {"java", "cobol"}}
    \cup {ToolsCallRequest("get_prompt", [prompt_name |-> "review"]),
          ToolsCallRequest("search_knowledge", [keyword |-> "api"])}

AgentsRequests ==
    {ToolsCallRequest(n, <<>>) : n \in agentsTools \cup {"no_such_tool"}}
    \cup {ToolsCallRequest(n, [agent_name |-> a]) :
              n \in {"get_agent"}, a \in {"API_agent", "nobody", ""}}
    \cup {ToolsCallRequest("get_agent_description", [agent |-> a]) :
              a \in {"dba_agent", "nobody"}}
    \cup {ToolsCallRequest("search_agents", [keyword |-> "api"]),
          ToolsCallRequest("get_agents_by_expertise", [expertise |-> "rest"]),
          ToolsCallRequest("list_agents", [filter |-> "api"])}

\* a tools/call handled by the mcp-instructions server
InstructionsCall ==
    /\ toolCall = NoToolCall
    /\ \E req \in InstructionsRequests :
           toolCall' = [server |-> "mcp-instructions", request |-> req,
                        outcome |-> InstructionsHandler(req)]
    /\ UNCHANGED <<cachedAgents, cmVars, ret, srvVars, orchVars>>

\* a tools/call handled by the moqui-agents server
AgentsCall ==
    /\ toolCall = NoToolCall
    /\ \E req \in AgentsRequests, disk \in AgentsOnDisk :
           /\ toolCall' = [server |-> "moqui-agents", request |-> req,
                           disk |-> disk, cached |-> cachedAgents,
                           outcome |-> AgentsHandler(req, cachedAgents, disk)]
           /\ cachedAgents' =
                  IF "exception" \in DOMAIN getCachedAgents(cachedAgents, disk)
                  THEN cachedAgents
                  ELSE getCachedAgents(cachedAgents, disk)
    /\ UNCHANGED <<cmVars, ret, srvVars, orchVars>>

\* the answer has gone to the client
CallAnswered ==
    /\ toolCall # NoToolCall
    /\ toolCall' = NoToolCall
    /\ UNCHANGED <<cachedAgents, cmVars, ret, srvVars, orchVars>>

\* the three servers, each answering the tools/call requests sent to it
NextServers ==
    \/ CallTool
    \/ CtxSkip
    \/ CtxInclude
    \/ CtxFinish
    \/ Respond
    \/ InstructionsCall
    \/ AgentsCall
    \/ CallAnswered

InitServers ==
    /\ Construct(<<>>)
    /\ ServerStart([f \in {"java.instructions.md"} |-> "aaaaaa.aaa"])
    /\ OrchestratorStart

SpecServers == InitServers /\ [][NextServers]_vars

(***************************************************************************)
(* Properties                                                              *)
(***************************************************************************)
AllocationSum ==
    JsAdd(JsAdd(allocation.instructions, allocation.docs),
          JsAdd(allocation.agent, allocation.reserved))

\* C1: for every budget configuration, after construction the sum
\* instructions + docs + agent + reserved of the allocation is <= total and
\* >= total - 4.
C1_AllocationSumWithinTotal ==
    /\ JsLeq(AllocationSum, allocation.total)
    /\ JsLeq(JsSub(allocation.total, JsInt(4)), AllocationSum)

InSelection == request.tool = "get_contextual_instructions" /\ pc \in {"loop", "done"}

RECURSIVE SumUsed(_)
SumUsed(items) ==
    IF Len(items) = 0 THEN 0
    ELSE SumUsed(SubSeq(items, 1, Len(items) - 1)) + items[Len(items)].usedLength

\* what loadInstruction has for a file of the request in progress
Available(filename) == loadInstruction(instructionCache, files, filename)

ThreeItemsOf100 ==
    /\ Len(relevantFiles) = 3
    /\ \A k \in 1..3 : LET c == Available(relevantFiles[k])
                       IN  IF c.found THEN Len(c.content) = 100 ELSE FALSE

\* C2: in getContextualInstructions, at every step of the loop totalChars +
\* budgetRemaining equals the budget passed in, each included item has
\* usedLength = min(item length, budget remaining before it), and the sum of
\* usedLength never exceeds the budget; three items of 100 characters under a
\* budget of 150 give 100, then 50 truncated, the third omitted, total 150.
C2_SelectionWithinBudget ==
    InSelection =>
        LET budget == request.contextBudget
            items  == result.instructions
        IN  /\ result.totalChars + result.budgetRemaining = budget
            /\ result.totalChars = SumUsed(items)
            /\ \A n \in 1..Len(items) :
                   items[n].usedLength =
                       Min(items[n].originalLength, budget - SumUsed(SubSeq(items, 1, n - 1)))
            /\ SumUsed(items) <= budget
            /\ (pc = "done" /\ budget = 150 /\ ThreeItemsOf100) =>
                   /\ Len(items) = 2
                   /\ items[1].usedLength = 100 /\ ~items[1].truncated
                   /\ items[2].usedLength = 50 /\ items[2].truncated
                   /\ result.summary.totalCharsUsed = 150

C2_Witness ==
    /\ InSelection
    /\ pc = "done"
    /\ request.contextBudget = 150
    /\ ThreeItemsOf100
    /\ Len(result.instructions) = 2
    /\ result.instructions[2].truncated

\* C3: truncate returns a result whose truncated.length is <= getCharLimit(budget)
\* and whose content length is <= getCharLimit(budget) plus the length of the
\* truncation marker; the marker is appended only when wasTruncated is true.
C3_TruncateWithinBudget ==
    ret.op = "truncate" =>
        LET r     == ret.value
            limit == ret.budget * CHARS_PER_TOKEN
        IN  /\ r.truncated.length <= limit
            /\ Len(r.content) <= limit + Len(TruncationMarker)
            /\ ~r.wasTruncated => r.content = ret.content
            /\ r.wasTruncated =>
                   r.content = SubSeq(ret.content, 1, r.truncated.length) \o TruncationMarker

C3_Witness ==
    /\ ret.op = "truncate"
    /\ ret.value.wasTruncated
    /\ ret.value.truncated.length = ret.budget * CHARS_PER_TOKEN
    /\ ret.value.truncated.length > 0

\* the text truncate kept, the marker taken off
KeptOf(r) ==
    IF r.wasTruncated THEN SubSeq(r.content, 1, Len(r.content) - Len(TruncationMarker))
    ELSE r.content

\* C4: when text.length > budgetChars, truncate takes the first budgetChars
\* characters as candidate, finds the rightmost of the last '.', the last line
\* break and the last '#' in it, and cuts just after that position if it lies
\* past 70% of budgetChars; otherwise it keeps exactly the first budgetChars
\* characters.
C4_BoundaryPast70Percent ==
    (ret.op = "truncate" /\ Len(ret.content) > ret.budget * CHARS_PER_TOKEN) =>
        LET budgetChars == ret.budget * CHARS_PER_TOKEN
            candidate   == SubSeq(ret.content, 1, budgetChars)
            boundaries  == {i \in 0..(budgetChars - 1) :
                               CharAt(candidate, i) \in {".", "\n", "#"}}
            rightmost   == CHOOSE i \in boundaries : \A j \in boundaries : j <= i
            past70      == boundaries # {} /\ 10 * rightmost > 7 * budgetChars
        IN  KeptOf(ret.value) =
                IF past70 THEN SubSeq(ret.content, 1, rightmost + 1) ELSE candidate

\* C5 as stated: truncating "Sentence one. Sentence two. Sentence three." with
\* a budget whose character limit lands mid-way through "two" keeps the text
\* that ends exactly after "Sentence one. Sentence two.".
C5_CutsAtPeriodAfterTwo ==
    (ret.op = "truncate" /\ ret.content = SentenceText /\ ret.budget = 6) =>
        KeptOf(ret.value) = "Sentence one. Sentence two."

\* C5, amended: with the limit of 24 characters (6 tokens), which lands after
\* the "t" of "two", truncate keeps exactly the first 24 characters,
\* "Sentence one. Sentence t": the last period inside the limit, at index 12,
\* is not past 70% of it, and the kept text never reaches beyond the limit.
C5_HardCutInsideTwo ==
    (ret.op = "truncate" /\ ret.content = SentenceText /\ ret.budget = 6) =>
        /\ ret.value.wasTruncated
        /\ KeptOf(ret.value) = "Sentence one. Sentence t"
        /\ ret.value.truncated.length = 24

C5_Witness ==
    /\ ret.op = "truncate"
    /\ ret.content = SentenceText
    /\ ret.budget = 6
    /\ ret.value.wasTruncated

\* C6: when selection (getContextualInstructions, getInstructionsForFile) cuts
\* an item longer than its allowance, the kept text is the one the
\* content-aware truncate algorithm produces for that allowance, with the
\* same truncation marker.
C6_SelectionUsesContentAwareTruncate ==
    /\ InSelection =>
           \A n \in 1..Len(result.instructions) :
               LET item == result.instructions[n]
               IN  item.truncated =>
                       item.content =
                           KeptText(Available(item.file).content, item.usedLength)
                               \o TruncationMarker
    /\ (request.tool = "get_instructions_for_file" /\ pc = "done") =>
           IF "truncated" \in DOMAIN result
           THEN result.truncated =>
                    result.content =
                        KeptText(Available(result.file).content, request.maxChars)
                            \o TruncationMarker
           ELSE TRUE

\* the position in relevantFiles of the n-th included item
PositionOf(n) ==
    CHOOSE k \in 1..Len(relevantFiles) : relevantFiles[k] = result.instructions[n].file

\* the file is on disk with at least one character
IsNonEmpty(v) == IF v.found THEN Len(v.content) > 0 ELSE FALSE

IsIncluded(k) ==
    \E n \in 1..Len(result.instructions) : result.instructions[n].file = relevantFiles[k]

\* the characters used by the items included from positions before k
UsedBefore(k) ==
    LET n == Cardinality({m \in 1..Len(result.instructions) : PositionOf(m) < k})
    IN  SumUsed(SubSeq(result.instructions, 1, n))

\* C7: getContextualInstructions processes items strictly in the given order
\* and stops at the first item reached with remaining budget <= 0: the
\* included items appear in input order, no item after the stopping point is
\* included, and no non-empty available item is skipped while at least one
\* character of budget remains.
C7_InOrderUntilBudgetExhausted ==
    InSelection =>
        LET items == result.instructions
            done  == IF pc = "done" THEN Len(relevantFiles) ELSE cursor - 1
        IN  /\ \A n \in 1..Len(items) : \E k \in 1..Len(relevantFiles) :
                   relevantFiles[k] = items[n].file
            /\ \A n, m \in 1..Len(items) : n < m => PositionOf(n) < PositionOf(m)
            /\ \A k \in 1..Len(relevantFiles) :
                   IF k <= done
                   THEN IsIncluded(k) <=>
                            /\ IsNonEmpty(Available(relevantFiles[k]))
                            /\ request.contextBudget - UsedBefore(k) > 0
                   ELSE ~IsIncluded(k)

\* the loop stopped before a non-empty item, after skipping an empty one
C7_Witness ==
    /\ InSelection
    /\ pc = "done"
    /\ cursor <= Len(relevantFiles)
    /\ IsNonEmpty(Available(relevantFiles[cursor]))
    /\ ~IsIncluded(cursor)
    /\ Len(result.instructions) >= 1
    /\ \E k \in 1..(cursor - 1) : ~IsIncluded(k)

\* C8: suggestPriority returns exactly three entries, one per category, whose
\* priorities are a permutation of {1, 2, 3}, sorted by ascending priority.
C8_RanksArePermutation ==
    ret.op = "suggestPriority" =>
        LET v == ret.value
        IN  /\ Len(v) = 3
            /\ {v[n].type : n \in 1..3} = Types
            /\ {v[n].priority : n \in 1..3} = {1, 2, 3}
            /\ \A n \in 1..3 : v[n].priority = n

C8_Witness ==
    /\ ret.op = "suggestPriority"
    /\ ret.value[1].type = "agent"
    /\ ret.value[3].type = "instructions"

\* the keyword rules in their order, and the ordering each one sets
RuleKeywords ==
    <<{"api", "rest", "endpoint"}, {"security", "auth", "owasp"},
      {"performance", "optimize"}, {"test", "spec"}, {"architecture", "design"}>>

RuleOrdering ==
    <<<<"agent", "instructions", "docs">>, <<"instructions", "docs", "agent">>,
      <<"docs", "instructions", "agent">>, <<"instructions", "docs", "agent">>,
      <<"agent", "docs", "instructions">>>>

MatchingRules(task) ==
    {i \in 1..5 : \E w \in RuleKeywords[i] : Includes(ToLowerCase(task), w)}

LastOf(S) == CHOOSE i \in S : \A j \in S : j <= i
FirstOf(S) == CHOOSE i \in S : \A j \in S : i <= j

TypesOf(v) == [n \in 1..Len(v) |-> v[n].type]

\* C9: suggestPriority evaluates its keyword rules in the fixed order
\* api/rest/endpoint, security/auth/owasp, performance/optimize, test/spec,
\* architecture/design on the lower-cased task; the ordering returned is that
\* of the last rule whose keywords match (instructions > docs > agent when
\* none does); 'implement security authentication' gives
\* [instructions, docs, agent].
C9_LastMatchingRuleWins ==
    ret.op = "suggestPriority" =>
        /\ TypesOf(ret.value) =
               IF MatchingRules(ret.task) = {} THEN <<"instructions", "docs", "agent">>
               ELSE RuleOrdering[LastOf(MatchingRules(ret.task))]
        /\ ret.task = "implement security authentication" =>
               TypesOf(ret.value) = <<"instructions", "docs", "agent">>

\* a task matching two rules with different orderings
C9_Witness ==
    /\ ret.op = "suggestPriority"
    /\ Cardinality(MatchingRules(ret.task)) >= 2
    /\ RuleOrdering[FirstOf(MatchingRules(ret.task))]
           # RuleOrdering[LastOf(MatchingRules(ret.task))]
    /\ TypesOf(ret.value) = RuleOrdering[LastOf(MatchingRules(ret.task))]

\* C10: for every task, allocateByPriority gives the rank-1, rank-2 and rank-3
\* categories floor(50%), floor(35%) and floor(15%) of (total - reserved),
\* keeps reserved and total equal to the static allocation's, and the three
\* category budgets sum to at most total - reserved (stated for the
\* allocations whose budgets are numbers).
C10_FrontLoadedSplit ==
    (ret.op = "allocateByPriority" /\ IsNum(allocation.reserved)) =>
        LET v         == ret.value
            available == allocation.total.v - allocation.reserved.v
            ranked    == TypesOf(suggestPriority(ret.task))
        IN  /\ v[ranked[1]] = JsInt((available * 50) \div 100)
            /\ v[ranked[2]] = JsInt((available * 35) \div 100)
            /\ v[ranked[3]] = JsInt((available * 15) \div 100)
            /\ v.reserved = allocation.reserved
            /\ v.total = allocation.total
            /\ v.instructions.v + v.docs.v + v.agent.v <= available

\* C11: after construction, no public ContextManager call (getAllocation,
\* getBudgetFor, getRemaining, estimateTokens, fits, truncate, suggestPriority,
\* allocateByPriority, getSummary) changes the static allocation or the
\* configuration, and getAllocation returns the static allocation's values
\* after any such call.
C11_CallsLeaveAllocationAlone ==
    [][/\ config' = config
       /\ allocation' = allocation
       /\ ret'.op = "getAllocation" => ret'.value = allocation]_vars

\* allocateByPriority has returned budgets that differ from the static ones,
\* which are still those computed from the configuration
C11_Witness ==
    /\ ret.op = "allocateByPriority"
    /\ ret.value # allocation
    /\ ret.value.total = allocation.total
    /\ allocation = calculateAllocation(config)

\* a percentage of this.config in thousandths, rounded down
PercentMilli(p) == MathFloor(DMulNat(p, 1000))

WeightsMilliSum ==
    JsAdd(JsAdd(PercentMilli(config.instructionsPercent), PercentMilli(config.docsPercent)),
          JsAdd(PercentMilli(config.agentPercent), PercentMilli(config.responsePercent)))

\* C12: for every configuration, the four percentage weights the allocator
\* uses to compute the budgets sum to 100 (here: to within the rounding of
\* the rescaling, 99.996 <= sum <= 100.001), and the diagnostic is emitted
\* when the raw sum deviates from 100 by more than 1: weights used without a
\* diagnostic are the raw ones, so their sum is within 1 of 100.
C12_WeightsSumTo100 ==
    /\ IsNum(WeightsMilliSum)
    /\ WeightsMilliSum.v \in 99996..100001
    /\ ~warned => WeightsMilliSum.v \in 99000..101000

\* C13: constructing an allocator with a negative total budget raises a
\* ConfigurationError, so no allocator instance with a negative total or a
\* negative category budget ever exists.
C13_NoNegativeBudget ==
    \A f \in {"instructions", "docs", "agent", "reserved", "total"} :
        IsNum(allocation[f]) => allocation[f].v >= 0

\* C14: for every category and every used amount, larger than the category
\* budget included, getRemaining(used, category) equals
\* max(0, budgetFor(category) - used) and is never negative (a budget that is
\* NaN gives NaN, which is not negative either).
C14_RemainingClampedAtZero ==
    ret.op = "getRemaining" =>
        LET budget == allocation[ret.type]
        IN  IF IsNum(budget)
            THEN /\ IsNum(ret.value)
                 /\ ret.value.v >= 0
                 /\ ret.value.v = (IF budget.v - ret.used > 0 THEN budget.v - ret.used ELSE 0)
            ELSE ret.value = JsNaN

\* more was used than a positive category budget holds
C14_Witness ==
    /\ ret.op = "getRemaining"
    /\ IsNum(allocation[ret.type])
    /\ allocation[ret.type].v > 0
    /\ ret.used > allocation[ret.type].v
    /\ ret.value = JsInt(0)

\* C15: with total budget 0 the allocator is constructed without error, every
\* category budget (instructions, docs, agent, reserved) is 0,
\* allocateByPriority returns 0 for every category, and truncate with such a
\* budget keeps zero characters of any non-empty text.
C15_ZeroTotalGivesZeroBudgets ==
    allocation.total = JsInt(0) =>
        /\ \A f \in {"instructions", "docs", "agent", "reserved"} :
               allocation[f] = JsInt(0)
        /\ ret.op = "allocateByPriority" =>
               \A f \in {"instructions", "docs", "agent"} : ret.value[f] = JsInt(0)
        /\ (ret.op = "truncate" /\ ret.budget = 0 /\ ret.content # "") =>
               /\ ret.value.wasTruncated
               /\ ret.value.truncated.length = 0
               /\ ret.value.content = TruncationMarker

\* C16: for every text, estimateTokens(text) = ceil(text.length / 4), it is 0
\* for the empty string, and it never under-counts:
\* getCharLimit(estimateTokens(text)) >= text.length.
C16_EstimateIsCeiling ==
    ret.op = "estimateTokens" =>
        LET n == Len(ret.content)
        IN  /\ ret.value = (n + 3) \div 4
            /\ ret.content = "" => ret.value = 0
            /\ getCharLimit(ret.value) >= n

\* a text that does not fill its last token
C16_Witness ==
    /\ ret.op = "estimateTokens"
    /\ Len(ret.content) > CHARS_PER_TOKEN
    /\ Len(ret.content) % CHARS_PER_TOKEN # 0
    /\ getCharLimit(ret.value) > Len(ret.content)

\* C17: round trip: for every text, getCharLimit(estimateTokens(text)) differs
\* from text.length by less than one token-equivalent
\* (0 <= 4 * ceil(n / 4) - n <= 3), and for every token count t,
\* estimateTokens of a text of getCharLimit(t) characters is t.
C17_RoundTripWithinOneToken ==
    ret.op = "estimateTokens" =>
        LET n == Len(ret.content)
        IN  /\ 0 <= getCharLimit(ret.value) - n
            /\ getCharLimit(ret.value) - n <= 3
            /\ \A t \in 0..n : n = getCharLimit(t) => ret.value = t

\* a text of exactly getCharLimit(2) characters
C17_Witness ==
    /\ ret.op = "estimateTokens"
    /\ Len(ret.content) = getCharLimit(2)
    /\ ret.value = 2

\* C18: whenever estimateTokens(text) <= budget (equivalently
\* text.length <= getCharLimit(budget)), truncate(text, budget) returns content
\* identical to text with no marker, wasTruncated = false,
\* percentRetained = 100 and truncated length and tokens equal to the
\* original's.
C18_TruncateNoOpWhenItFits ==
    ret.op = "truncate" =>
        LET n      == Len(ret.content)
            tokens == (n + 3) \div 4
            r      == ret.value
        IN  /\ (tokens <= ret.budget) <=> (n <= ret.budget * CHARS_PER_TOKEN)
            /\ tokens <= ret.budget =>
                   /\ r.content = ret.content
                   /\ ~r.wasTruncated
                   /\ r.percentRetained = 100
                   /\ r.original = [length |-> n, tokens |-> tokens]
                   /\ r.truncated = r.original

\* a text that fills the budget to the last character
C18_Witness ==
    /\ ret.op = "truncate"
    /\ ret.budget > 0
    /\ Len(ret.content) = ret.budget * CHARS_PER_TOKEN
    /\ ~ret.value.wasTruncated
    /\ ret.value.content = ret.content

\* C19: in getContextualInstructions an item whose content is empty or
\* unavailable is skipped: it adds no entry to the result, leaves totalChars
\* and budgetRemaining unchanged, is never reported as truncated (no entry of
\* the result comes from it), and the items after it are still processed.
C19_EmptyItemIsSkipped ==
    [][/\ (/\ InSelection
           /\ pc = "loop"
           /\ cursor <= Len(relevantFiles)
           /\ result.budgetRemaining > 0
           /\ ~IsNonEmpty(Available(relevantFiles[cursor])))
          => /\ result' = result
             /\ cursor' = cursor + 1
             /\ pc' = "loop"
       /\ (request'.tool = "get_contextual_instructions" /\ pc' \in {"loop", "done"})
          => \A n \in 1..Len(result'.instructions) :
                 /\ result'.instructions[n].originalLength > 0
                 /\ \E k \in 1..Len(relevantFiles') :
                        /\ relevantFiles'[k] = result'.instructions[n].file
                        /\ relevantFiles'[k] \in DOMAIN files'
                        /\ Len(files'[relevantFiles'[k]]) > 0]_vars

\* an empty file was passed over and a file after it was included
C19_Witness ==
    /\ InSelection
    /\ pc = "done"
    /\ \E k, j \in 1..Len(relevantFiles) :
           /\ k < j
           /\ Available(relevantFiles[k]) = Content("")
           /\ ~IsIncluded(k)
           /\ IsIncluded(j)
    /\ result.summary.filesLoaded = Len(result.instructions)

\* the call without what it returned
ArgsOf(r) == [k \in DOMAIN r \ {"value"} |-> r[k]]

C21_DryRunLeavesCacheUnchanged ==
    /\ (run.pc = "exited" /\ run.DRY_RUN) =>
           /\ run.mcpCalls = 0
           /\ ~run.routed
           /\ responseCache = run.cacheAtStart
    /\ (/\ run.pc = "exited" /\ ~run.DRY_RUN /\ run.served
        /\ prev # NoRun /\ prev.DRY_RUN
        /\ CacheKeyOf(prev) = CacheKeyOf(run)) =>
           CacheKeyOf(run) \in DOMAIN prev.cacheAtStart

\* a valid command with its API key present, not verbose, not dry-run, whose
\* instructions server, if started, did not fail
CachingCommand(r) ==
    /\ validate_inputs(r)
    /\ r.credential
    /\ ~r.VERBOSE
    /\ ~r.DRY_RUN
    /\ r.server # "failed"

\* C23: the same valid file-mode command (key present, not verbose, not
\* dry-run) run twice in sequence: the first run completes and stores the
\* instructions under the key of task:file, and the second run is served
\* from the cache without calling the MCP server or routing to the LLM.

C23_SecondRunServedFromCache ==
    /\ (run.pc = "exited" /\ CachingCommand(run)) =>
           /\ run.status = 0
           /\ CacheKeyOf(run) \in DOMAIN responseCache
           /\ (~run.served => responseCache[CacheKeyOf(run)] = run.INSTRUCTIONS)
    /\ (/\ run.pc = "exited" /\ prev # NoRun
        /\ CachingCommand(run)
        /\ CachingCommand(prev)
        /\ CacheKeyOf(prev) = CacheKeyOf(run)
        /\ prev.LLM = run.LLM) =>
               /\ run.served
               /\ run.mcpCalls = 0
               /\ ~run.routed

RECURSIVE SummariesLength(_)
SummariesLength(docs) ==
    IF Len(docs) = 0 THEN 0
    ELSE Len(docs[1].content) + SummariesLength(Tail(docs))

\* C22: the maxChars argument of get_reference_docs and of get_agent_guide is
\* an upper bound on what is returned: for every maxChars > 0 the total
\* length of the doc summaries returned by getReferenceDocs, and the length
\* of the summary returned by getAgentGuide, is <= maxChars.
C22_MaxCharsBoundsDocsAndGuide ==
    /\ (/\ request.tool = "get_reference_docs"
        /\ "maxChars" \in DOMAIN request.args
        /\ "docs" \in DOMAIN result) =>
           (request.args.maxChars > 0 =>
               SummariesLength(result.docs) <= request.args.maxChars)
    /\ (/\ request.tool = "get_agent_guide"
        /\ "maxChars" \in DOMAIN request.args
        /\ "summary" \in DOMAIN result) =>
           (request.args.maxChars > 0 =>
               Len(result.summary) <= request.args.maxChars)

\* the step is a clearCache call
IsClearCache == pc = "idle" /\ request'.tool = "clear_cache"

\* the step is a getInstructionsForFile call, which loads one file
IsFileLoad == pc = "idle" /\ request'.tool = "get_instructions_for_file"

LoadedFile == InstructionFileFor(Ext(request'.args.filepath))

\* the step is an iteration of getContextualInstructions that included the
\* file it loaded
IsIncludeStep ==
    /\ pc = "loop"
    /\ pc' = "loop"
    /\ Len(result'.instructions) = Len(result.instructions) + 1

\* what was returned for a loaded file is the cached content
ReturnsCached(entry) ==
    /\ entry.file \in DOMAIN instructionCache'
    /\ IF entry.truncated
       THEN entry.originalLength = Len(instructionCache'[entry.file])
       ELSE entry.content = instructionCache'[entry.file]

\* C24: instruction cache lifecycle: over any interleaving of loads, file
\* changes and clearCache calls, loadInstruction(f) returns the file content
\* as it was at the first successful load of f since the most recent
\* clearCache (or since start), never reading the file again in between; a
\* load that finds no file returns null and stores nothing; clearCache
\* removes every entry and reports the number removed.
C24_CacheLifecycle ==
    [][/\ IsClearCache =>
              /\ instructionCache' = <<>>
              /\ result'.removed = Cardinality(DOMAIN instructionCache)
       /\ ~IsClearCache =>
              \A f \in DOMAIN instructionCache :
                  /\ f \in DOMAIN instructionCache'
                  /\ instructionCache'[f] = instructionCache[f]
       /\ \A f \in DOMAIN instructionCache' \ DOMAIN instructionCache :
              /\ f \in DOMAIN files
              /\ instructionCache'[f] = files[f]
       /\ IsFileLoad =>
              IF LoadedFile \notin DOMAIN instructionCache /\ LoadedFile \notin DOMAIN files
              THEN /\ result' = McpError("InvalidRequest")
                   /\ instructionCache' = instructionCache
              ELSE "file" \in DOMAIN result' => ReturnsCached(result')
       /\ IsIncludeStep =>
              ReturnsCached(result'.instructions[Len(result'.instructions)])
      ]_vars

\* a load answered from the cache after the file has changed on disk
C24_Witness ==
    /\ pc = "done"
    /\ request.tool = "get_instructions_for_file"
    /\ "file" \in DOMAIN result
    /\ result.file \in DOMAIN files
    /\ result.file \in DOMAIN instructionCache
    /\ files[result.file] # instructionCache[result.file]
    /\ ~result.truncated
    /\ result.content = instructionCache[result.file]

\* C25: selection reports ordinary conditions as normal results: for every
\* task, file type and budget (no relevant file available, every file empty,
\* budget already exhausted, first item larger than the budget)
\* getContextualInstructions returns a result whose summary.filesLoaded is
\* the number of included items (0 when none), summary.totalCharsUsed the sum
\* of their usedLength and summary.remainingBudget the budget minus
\* totalCharsUsed.
C25_SummaryReportsSelection ==
    (pc = "done" /\ request.tool = "get_contextual_instructions") =>
        /\ "summary" \in DOMAIN result
        /\ "mcpError" \notin DOMAIN result
        /\ result.summary.filesLoaded = Len(result.instructions)
        /\ result.summary.totalCharsUsed = SumUsed(result.instructions)
        /\ result.summary.remainingBudget =
               request.contextBudget - result.summary.totalCharsUsed

\* a first item larger than the budget: included cut, nothing remaining
C25_Witness ==
    /\ pc = "done"
    /\ request.tool = "get_contextual_instructions"
    /\ request.contextBudget = 8
    /\ result.summary.filesLoaded = 1
    /\ result.instructions[1].truncated
    /\ result.summary.remainingBudget = 0

\* the request sent to the context-aware-instructions server has been
\* answered
Answered == pc = "done" /\ "args" \in DOMAIN request

\* C26: in each of the three servers' tools/call handlers, a request naming
\* an unknown tool is answered with McpError MethodNotFound, an McpError
\* raised by a tool reaches the caller unchanged with its original code, any
\* other exception raised while executing a tool is converted to McpError
\* InternalError, and no non-McpError exception escapes the handler.
C26_HandlersMapErrors ==
    /\ Answered =>
           /\ request.tool \notin tools => result = McpError("MethodNotFound")
           /\ "exception" \notin DOMAIN result
           /\ (/\ request.tool = "get_instructions_for_file"
               /\ ~IsNonEmpty(Available(InstructionFileFor(Ext(request.args.filepath))))) =>
                  result = McpError("InvalidRequest")
    /\ toolCall.server = "mcp-instructions" =>
           /\ toolCall.request.params.name \notin instructionsTools =>
                  toolCall.outcome = McpError("MethodNotFound")
           /\ "exception" \notin DOMAIN toolCall.outcome
    /\ toolCall.server = "moqui-agents" =>
           /\ toolCall.request.params.name \notin agentsTools =>
                  toolCall.outcome = McpError("MethodNotFound")
           /\ "exception" \notin DOMAIN toolCall.outcome
           /\ (/\ toolCall.request.params.name = "get_agent"
               /\ toolCall.request.params.arguments = [agent_name |-> "nobody"]) =>
                  toolCall.outcome = McpError("InvalidParams")

\* C27: in each of the three servers, a tools/call request {method, params:
\* {name, arguments}} whose params.name is a tool advertised by that server's
\* tools/list is dispatched to that tool's case and is never answered with
\* MethodNotFound; every advertised tool has a case and every case is
\* advertised.
C27_AdvertisedToolsAreDispatched ==
    /\ \A n \in instructionsTools :
           InstructionsSwitch(n, <<>>) # McpError("MethodNotFound")
    /\ InstructionsSwitch("no_such_tool", <<>>) = McpError("MethodNotFound")
    /\ \A n \in agentsTools :
           AgentsSwitch(n, <<>>, {}) # McpError("MethodNotFound")
    /\ AgentsSwitch("no_such_tool", <<>>, {}) = McpError("MethodNotFound")
    /\ (Answered /\ request.tool \in tools) => result # McpError("MethodNotFound")
    /\ (/\ toolCall.server = "mcp-instructions"
        /\ toolCall.request.params.name \in instructionsTools) =>
           toolCall.outcome # McpError("MethodNotFound")
    /\ (/\ toolCall.server = "moqui-agents"
        /\ toolCall.request.params.name \in agentsTools) =>
           toolCall.outcome # McpError("MethodNotFound")

\* C28: fits and truncate agree for every text and every budget >= 0 (a
\* whole number of tokens): fits(text, budget) is true exactly when
\* truncate(text, budget).wasTruncated is false, and percentRetained is
\* always an integer in 0..100 that is 100 whenever wasTruncated is false.
C28_FitsAgreesWithTruncate ==
    /\ ret.op = "fits" =>
           (ret.value <=> ~truncate(ret.content, ret.budget).wasTruncated)
    /\ ret.op = "truncate" =>
           /\ ret.value.percentRetained \in 0..100
           /\ ~ret.value.wasTruncated => ret.value.percentRetained = 100
           /\ ret.value.wasTruncated <=> Len(ret.content) > CHARS_PER_TOKEN * ret.budget

\* a text of exactly budget tokens, which fits
C28_Witness ==
    /\ ret.op = "fits"
    /\ ret.budget > 0
    /\ Len(ret.content) = CHARS_PER_TOKEN * ret.budget
    /\ ret.value

\* C29: no object returned by a public ContextManager method aliases the
\* manager's internal state: after a caller modifies any object returned by
\* getAllocation, allocateByPriority, suggestPriority or getSummary,
\* getAllocation and getBudgetFor still return the values computed at
\* construction.
C29_ReturnedObjectsAreNotAliases ==
    /\ (ret.op = "getAllocation" /\ "modified" \notin DOMAIN ret) =>
           ret.value = twin.allocation
    /\ ret.op = "getBudgetFor" => ret.value = twin.allocation[ret.type]

\* C30: a get_contextual_instructions request carrying an explicit
\* contextBudget b is selected under aggregate budget exactly b for every
\* b >= 0, including b = 0 (zero items, totalCharsUsed 0); only a request
\* without contextBudget falls back to the default of 24000 characters.  The
\* same holds for maxChars in get_instructions_for_file.
C30_ExplicitBudgetIsHonoured ==
    /\ ("args" \in DOMAIN request /\ request.tool = "get_contextual_instructions") =>
           /\ result.allocation.budget =
                  IF "contextBudget" \in DOMAIN request.args
                  THEN request.args.contextBudget ELSE MAX_CHARS
           /\ SumUsed(result.instructions) <= result.allocation.budget
           /\ ("contextBudget" \in DOMAIN request.args /\ pc = "done") =>
                  (request.args.contextBudget = 0 =>
                      /\ Len(result.instructions) = 0
                      /\ result.summary.totalCharsUsed = 0)
    /\ (/\ "args" \in DOMAIN request
        /\ request.tool = "get_instructions_for_file"
        /\ "file" \in DOMAIN result) =>
           LET limit == IF "maxChars" \in DOMAIN request.args
                        THEN request.args.maxChars ELSE MAX_CHARS
           IN  IF result.truncated
               THEN /\ result.availableChars = limit
                    /\ result.originalLength > limit
               ELSE Len(result.content) <= limit

====
